---- MODULE Spec2Model ----
(***************************************************************************)
(* Model of the dysarthria-voice-ai web application.                        *)
(*                                                                          *)
(* Part I  - the session relay: one host App, the guest Apps, and the       *)
(*           SignalingService connections between them (App.tsx,            *)
(*           services/signaling.ts).                                        *)
(* Part II - the WhisperService capture / flush / transcribe pipeline       *)
(*           (services/whisper.ts).                                         *)
(*                                                                          *)
(* Each part has its own specification over the shared variable tuple.      *)
(***************************************************************************)
EXTENDS Integers, Sequences, FiniteSets, TLC

VARIABLES
    \* ---- host App state (useState hooks of the host instance) ----
    pendingGuest,       \* Guest | null, as a sequence of length <= 1
    guests,             \* Guest[] (the session's guest list)
    hostTranscript,     \* TranscriptEntry[] of the host
    hostConnections,    \* host SignalingService.connections (guests whose conn is open)
    hostInbox,          \* data events queued for the host's onMessage callback
    emitted,            \* number of entries the transcription client has produced
    \* ---- guest App state, one per guest ----
    view,               \* 'landing' | 'guest'
    guestConnectionStatus,
    closureStatus,      \* guestConnectionStatus as captured by the signaling effect's callback
    transcript,         \* TranscriptEntry[] of the guest
    connected,          \* the guest's SignalingService holds an open connection to the host
    inbox,              \* data events queued for the guest's onMessage callback
    joinTimers,         \* pending setTimeout(…, 1500) callbacks of requestJoin
    \* ---- history ----
    synced,             \* the guest was connected, on an open link, at every host emission so far
    remoteSent,         \* messages put on the wire by peers that are not this program
    retried,            \* the guest has pressed Try Again after a rejection (SpecRetry only)
    \* ---- WhisperService fields ----
    isConnected,
    hasSuccessfullyTranscribed,
    audioBuffer,        \* Float32Array[]: the resampled blocks not yet flushed
    bufferLength,       \* running total of their lengths
    processingInterval, \* id of the last setInterval, 0 for null
    inputAudioContext,  \* "null" | "running" | "closed"
    mediaStream,        \* "null" | "live" | "stopped"
    processor,          \* "null" | "live" | "disconnected"
    \* ---- WhisperService: the browser around it ----
    intervals,          \* ids of the intervals that are still scheduled
    liveProcessors,     \* script processors still wired to a capture stream
    liveStreams,        \* capture streams acquired and not stopped
    pendingMic,         \* connect() calls waiting for getUserMedia
    pendingClose,       \* disconnect() calls waiting for AudioContext.close()
    inflight,           \* requests waiting for the endpoint's reply
    now,                \* Date.now()
    \* ---- WhisperService: what its caller has seen ----
    calls,              \* the config callbacks invoked by the last step, in order
    entries,            \* every entry handed to onTranscription, in order
    disconnected,       \* onDisconnect has been signalled
    \* ---- history ----
    arrived,            \* every block appended to audioBuffer, in arrival order
    flushed,            \* every chunk a flush took out of audioBuffer, in order
    blocks,             \* capture callbacks so far
    apiCalls,           \* connect() and disconnect() calls so far
    \* ---- SignalingService ----
    service,            \* the fields of one SignalingService: role, peer, connections, retryTimer
    peerjs,             \* the PeerJS library and the browser around that service
    \* ---- session ids ----
    channel,            \* the session ids given to a host's and a guest's service, and
                        \* the peer ids their connect() derived from them
    \* ---- silence gate ----
    gate,               \* a WhisperService seen with the values of its samples
    \* ---- pure functions of the WhisperService ----
    wav,                \* an encodeToWAV input, and the bytes of the calls made on it
    resampler,          \* a resampleToTarget input, and the output of the calls made on it
    \* ---- host App: the view ----
    hostView            \* 'host' | 'landing'

relayVars == <<pendingGuest, guests, hostTranscript, hostConnections, hostInbox,
               emitted, view, guestConnectionStatus, closureStatus, transcript, connected,
               inbox, joinTimers, synced, remoteSent, retried>>

whisperVars == <<isConnected, hasSuccessfullyTranscribed, audioBuffer, bufferLength,
                 processingInterval, inputAudioContext, mediaStream, processor, intervals,
                 liveProcessors, liveStreams, pendingMic, pendingClose, inflight, now,
                 calls, entries, disconnected, arrived, flushed, blocks, apiCalls>>

signalingVars == <<service, peerjs>>

vars == <<relayVars, whisperVars, signalingVars, channel, gate, wav, resampler, hostView>>

\* What the steps of each part leave alone.
beyondRelay == <<whisperVars, signalingVars, channel, gate, wav, resampler, hostView>>
beyondWhisper == <<relayVars, signalingVars, channel, gate, wav, resampler, hostView>>
beyondSignaling == <<relayVars, whisperVars, channel, gate, wav, resampler, hostView>>
beyondChannel == <<relayVars, whisperVars, signalingVars, gate, wav, resampler, hostView>>
beyondGate == <<relayVars, whisperVars, signalingVars, channel, wav, resampler, hostView>>
beyondWav == <<relayVars, whisperVars, signalingVars, channel, gate, resampler, hostView>>
beyondResampler == <<relayVars, whisperVars, signalingVars, channel, gate, wav, hostView>>

-----------------------------------------------------------------------------
(* Bounds of the relay model *)
MaxEmit == 1
MaxRemote == 1
MaxQueue == 2

(* Bounds of the WhisperService model *)
MaxBlocks == 2
MaxApiCalls == 2

-----------------------------------------------------------------------------
(* Data *)

\* Persistent guest ids (localStorage 'guest_id'), as character sequences.
GuestA == <<"k", "3", "x", "9", "q">>
GuestB == <<"m", "7", "p", "2", "w">>

\* The guest Apps modelled in full.  Any further guest of the session is seen by
\* the host as a peer that sends JOIN_REQUEST with its own id (Peers).
Guests == {GuestA}
Peers == {GuestB}

\* An absent (undefined) optional field.
Undefined == << >>

\* Transcribed texts (trimmed, non-empty).
Texts == {"hello"}

Statuses == {"idle", "requesting", "connected", "rejected"}

\* A substring that returns the whole string.
WholeString(s, n) == s

\* String.prototype.substring(0, n)
Substring(s, n) == IF Len(s) <= n THEN s ELSE SubSeq(s, 1, n)

\* 'Guest ' + msg.senderId?.substring(0, 4)
GuestName(senderId) ==
    IF senderId = Undefined
    THEN <<"G", "u", "e", "s", "t", " ", "u", "n", "d", "e", "f", "i", "n", "e", "d">>
    ELSE <<"G", "u", "e", "s", "t", " ">> \o Substring(senderId, 4)

Guest(id, status) == [id |-> id, name |-> GuestName(id), status |-> status]

TranscriptEntry(id, text) ==
    [id |-> id, sender |-> "user", text |-> text, isPartial |-> FALSE]

\* SignalingMessage: type, senderId?, payload.guestId?, payload.entry? (an optional
\* entry is a sequence of length <= 1).
Message(type, senderId, guestId, entry) ==
    [type |-> type, senderId |-> senderId, guestId |-> guestId, entry |-> entry]

JoinRequest(myId)   == Message("JOIN_REQUEST", myId, Undefined, << >>)
JoinApproved(gid)   == Message("JOIN_APPROVED", Undefined, gid, << >>)
JoinRejected(gid)   == Message("JOIN_REJECTED", Undefined, gid, << >>)
TranscriptUpdate(e) == Message("TRANSCRIPT_UPDATE", Undefined, Undefined, <<e>>)
TranscriptClear     == Message("TRANSCRIPT_CLEAR", Undefined, Undefined, << >>)
SessionEnded        == Message("SESSION_ENDED", Undefined, Undefined, << >>)

-----------------------------------------------------------------------------
(* SignalingService *)

\* send(message) on the host's service: one conn.send per connection in the list.
Broadcast(inb, conns, msgs) ==
    [g \in Guests |-> IF g \in conns THEN inb[g] \o msgs ELSE inb[g]]

\* Room for k more messages on every link the host would write to.
HostCanSend(k) == \A g \in hostConnections : Len(inbox[g]) + k <= MaxQueue

\* send(message) on a guest's service: its only connection is the one to the host.
GuestSend(g, msg) == IF connected[g] THEN Append(hostInbox, msg) ELSE hostInbox

-----------------------------------------------------------------------------
(* App: message handlers *)

\* handleHostMessage: the pendingGuest state after msg.
HandleHostMessage(pending, msg) ==
    IF msg.type = "JOIN_REQUEST"
    THEN <<Guest(msg.senderId, "pending")>>
    ELSE pending

\* A handler that leaves the status alone on JOIN_APPROVED.
IgnoresApproval(status, msg) ==
    CASE msg.type = "JOIN_REJECTED" -> "rejected"
      [] msg.type = "SESSION_ENDED" -> "idle"
      [] OTHER -> status

\* handleGuestMessage: the guestConnectionStatus after msg.
HandleGuestMessageStatus(status, msg) ==
    CASE msg.type = "JOIN_APPROVED" -> "connected"
      [] msg.type = "JOIN_REJECTED" -> "rejected"
      [] msg.type = "SESSION_ENDED" -> "idle"
      [] OTHER -> status

\* A handler that keeps the transcript on SESSION_ENDED.
KeepsTranscriptOnEnd(captured, log, msg) ==
    CASE msg.type = "TRANSCRIPT_UPDATE" ->
            IF captured = "connected" THEN Append(log, Head(msg.entry)) ELSE log
      [] msg.type = "TRANSCRIPT_CLEAR" ->
            IF captured = "connected" THEN << >> ELSE log
      [] OTHER -> log

\* handleGuestMessage: the transcript after msg. `captured` is the
\* guestConnectionStatus the handler's closure reads (the value of the render in
\* which the signaling effect ran).
HandleGuestMessageTranscript(captured, log, msg) ==
    CASE msg.type = "TRANSCRIPT_UPDATE" ->
            IF captured = "connected" THEN Append(log, Head(msg.entry)) ELSE log
      [] msg.type = "TRANSCRIPT_CLEAR" ->
            IF captured = "connected" THEN << >> ELSE log
      [] msg.type = "SESSION_ENDED" -> << >>
      [] OTHER -> log

-----------------------------------------------------------------------------
(* Relay: initial state.  The host has opened a session; every guest has     *)
(* opened the invite link, so its signaling effect has run once, in the      *)
(* render where guestConnectionStatus was still 'idle'.                      *)
RelayInit ==
    /\ pendingGuest = << >>
    /\ guests = << >>
    /\ hostTranscript = << >>
    /\ hostConnections = {}
    /\ hostInbox = << >>
    /\ emitted = 0
    /\ view = [g \in Guests |-> "guest"]
    /\ guestConnectionStatus = [g \in Guests |-> "idle"]
    /\ closureStatus = [g \in Guests |-> "idle"]
    /\ transcript = [g \in Guests |-> << >>]
    /\ connected = [g \in Guests |-> FALSE]
    /\ inbox = [g \in Guests |-> << >>]
    /\ joinTimers = [g \in Guests |-> 0]
    /\ synced = [g \in Guests |-> TRUE]
    /\ remoteSent = 0
    /\ retried = [g \in Guests |-> FALSE]

hostUI == <<pendingGuest, guests, hostTranscript, emitted>>
guestUI == <<view, guestConnectionStatus, closureStatus, transcript>>

-----------------------------------------------------------------------------
(* Relay: connection events *)

\* conn.on('open') on the guest's side of its dial to the host.
GuestConnectionOpen(g) ==
    /\ ~connected[g]
    /\ connected' = [connected EXCEPT ![g] = TRUE]
    /\ UNCHANGED <<beyondRelay, retried, hostUI, guestUI, hostConnections, hostInbox, inbox,
                   joinTimers, synced, remoteSent>>

\* peer.on('connection') then conn.on('open') on the host's side.
HostConnectionOpen(g) ==
    /\ g \notin hostConnections
    /\ hostConnections' = hostConnections \cup {g}
    /\ UNCHANGED <<beyondRelay, retried, hostUI, guestUI, connected, hostInbox, inbox,
                   joinTimers, synced, remoteSent>>

-----------------------------------------------------------------------------
(* Relay: guest App *)

\* The signaling effect re-runs when `view` changes: the old service is closed,
\* a new one dials the host, and its callback captures the current render.
SignalingEffect(g) ==
    /\ closureStatus' = [closureStatus EXCEPT ![g] = guestConnectionStatus[g]]
    /\ connected' = [connected EXCEPT ![g] = FALSE]
    /\ hostConnections' = hostConnections \ {g}
    /\ inbox' = [inbox EXCEPT ![g] = << >>]
    /\ synced' = [synced EXCEPT ![g] = FALSE]

\* "Back" button of the guest view: setView('landing').
GuestBack(g) ==
    /\ view[g] = "guest"
    /\ view' = [view EXCEPT ![g] = "landing"]
    /\ SignalingEffect(g)
    /\ UNCHANGED <<beyondRelay, retried, hostUI, guestConnectionStatus, transcript, hostInbox,
                   joinTimers, remoteSent>>

\* "I'm a Guest" card of the landing view: setView('guest').
GuestEnter(g) ==
    /\ view[g] = "landing"
    /\ view' = [view EXCEPT ![g] = "guest"]
    /\ SignalingEffect(g)
    /\ UNCHANGED <<beyondRelay, retried, hostUI, guestConnectionStatus, transcript, hostInbox,
                   joinTimers, remoteSent>>

\* requestJoin ("Join Session", shown while idle): status and the 1500 ms timer.
RequestJoin(g) ==
    /\ view[g] = "guest"
    /\ guestConnectionStatus[g] = "idle"
    /\ guestConnectionStatus' = [guestConnectionStatus EXCEPT ![g] = "requesting"]
    /\ joinTimers' = [joinTimers EXCEPT ![g] = @ + 1]
    /\ UNCHANGED <<beyondRelay, retried, hostUI, view, closureStatus, transcript,
                   hostConnections, connected, hostInbox, inbox, synced, remoteSent>>

\* The timer of requestJoin fires: send JOIN_REQUEST with the local guest id.
JoinTimerFires(g) ==
    /\ joinTimers[g] > 0
    /\ Len(hostInbox) < MaxQueue
    /\ joinTimers' = [joinTimers EXCEPT ![g] = @ - 1]
    /\ hostInbox' = GuestSend(g, JoinRequest(g))
    /\ UNCHANGED <<beyondRelay, retried, hostUI, guestUI, hostConnections, connected, inbox,
                   synced, remoteSent>>

\* "Try Again" (shown while rejected): setGuestConnectionStatus('idle').  `record`
\* says whether the step is noted in the history variable `retried`.
TryAgain(g, record) ==
    /\ view[g] = "guest"
    /\ guestConnectionStatus[g] = "rejected"
    /\ guestConnectionStatus' = [guestConnectionStatus EXCEPT ![g] = "idle"]
    /\ retried' = [retried EXCEPT ![g] = @ \/ record]
    /\ UNCHANGED <<beyondRelay, hostUI, view, closureStatus, transcript,
                   hostConnections, connected, hostInbox, inbox, joinTimers, synced,
                   remoteSent>>

\* conn.on('data') on the guest: the effect's callback, which hands the message
\* to handleGuestMessage only in the guest view.
GuestReceive(g) ==
    /\ inbox[g] # << >>
    /\ inbox' = [inbox EXCEPT ![g] = Tail(@)]
    /\ LET msg == Head(inbox[g]) IN
        IF view[g] = "guest"
        THEN /\ guestConnectionStatus' =
                    [guestConnectionStatus EXCEPT ![g] = HandleGuestMessageStatus(@, msg)]
             /\ transcript' =
                    [transcript EXCEPT ![g] =
                        HandleGuestMessageTranscript(closureStatus[g], @, msg)]
        ELSE UNCHANGED <<guestConnectionStatus, transcript>>
    /\ UNCHANGED <<beyondRelay, retried, hostUI, view, closureStatus, hostConnections, connected,
                   hostInbox, joinTimers, synced, remoteSent>>

-----------------------------------------------------------------------------
(* Relay: host App *)

\* conn.on('data') on the host: the effect's callback calls handleHostMessage.
HostReceive ==
    /\ hostInbox # << >>
    /\ hostInbox' = Tail(hostInbox)
    /\ pendingGuest' = HandleHostMessage(pendingGuest, Head(hostInbox))
    /\ UNCHANGED <<beyondRelay, retried, guests, hostTranscript, emitted, guestUI,
                   hostConnections, connected, inbox, joinTimers, synced, remoteSent>>

\* A guest list that takes the pending guest in whatever the decision.
AppendsPendingAlways(list, pending, accept) ==
    IF pending # << >>
    THEN Append(list, [Head(pending) EXCEPT !.status = "connected"])
    ELSE list

\* handleGuestResponse: the guest list after the decision.
GuestsAfterResponse(list, pending, accept) ==
    IF pending # << >> /\ accept
    THEN Append(list, [Head(pending) EXCEPT !.status = "connected"])
    ELSE list

\* handleGuestResponse: the messages handed to signaling.send.
ResponseMessages(pending, accept) ==
    IF pending = << >> THEN << >>
    ELSE IF accept THEN <<JoinApproved(Head(pending).id)>>
    ELSE <<JoinRejected(Head(pending).id)>>

\* handleGuestResponse(accept): the approve / reject buttons of the join toast.
HandleGuestResponse(accept) ==
    /\ HostCanSend(1)
    /\ guests' = GuestsAfterResponse(guests, pendingGuest, accept)
    /\ inbox' = Broadcast(inbox, hostConnections, ResponseMessages(pendingGuest, accept))
    /\ pendingGuest' = << >>
    /\ UNCHANGED <<beyondRelay, retried, hostTranscript, emitted, guestUI, hostConnections,
                   connected, hostInbox, joinTimers, synced, remoteSent>>

\* Whether the guest is, at this moment, connected on a link the host writes to.
Listening(g) ==
    /\ guestConnectionStatus[g] = "connected"
    /\ view[g] = "guest"
    /\ g \in hostConnections

\* clearTranscript: the header's clear button.
ClearTranscript ==
    /\ HostCanSend(1)
    /\ hostTranscript' = << >>
    /\ inbox' = Broadcast(inbox, hostConnections, <<TranscriptClear>>)
    /\ synced' = [g \in Guests |-> synced[g] /\ Listening(g)]
    /\ UNCHANGED <<beyondRelay, retried, pendingGuest, guests, emitted, guestUI, hostConnections,
                   connected, hostInbox, joinTimers, remoteSent>>

\* Callbacks that append the entry and hand nothing to signaling.send.
SendsNothing(entry) == << >>

\* The messages the WhisperService callbacks hand to signaling.send for one entry:
\* onTranscription sends it, then onBroadcastTranscript sends it.
TranscriptionMessages(entry) == <<TranscriptUpdate(entry), TranscriptUpdate(entry)>>

\* A transcription reply produces an entry: config.onTranscription(entry)
\* followed by config.onBroadcastTranscript(entry).  Here the ids of successive
\* entries are distinct (the clock advanced between the replies).
HostTranscription(text) ==
    /\ emitted < MaxEmit
    /\ HostCanSend(2)
    /\ LET entry == TranscriptEntry(emitted + 1, text) IN
        /\ hostTranscript' = Append(hostTranscript, entry)
        /\ inbox' = Broadcast(inbox, hostConnections, TranscriptionMessages(entry))
    /\ emitted' = emitted + 1
    /\ synced' = [g \in Guests |-> synced[g] /\ Listening(g)]
    /\ UNCHANGED <<beyondRelay, retried, pendingGuest, guests, guestUI, hostConnections,
                   connected, hostInbox, joinTimers, remoteSent>>

-----------------------------------------------------------------------------
(* Relay: peers that are not this program.  The data handler casts whatever   *)
(* arrives to SignalingMessage, so a link can carry any message type.         *)

RemoteToGuest == {SessionEnded}
RemoteToHost  == {JoinRequest(p) : p \in Peers} \cup {JoinRequest(Undefined), SessionEnded}

RemoteSendsGuest(g, msg) ==
    /\ remoteSent < MaxRemote
    /\ Len(inbox[g]) < MaxQueue
    /\ remoteSent' = remoteSent + 1
    /\ inbox' = [inbox EXCEPT ![g] = Append(@, msg)]
    /\ synced' = [synced EXCEPT ![g] = FALSE]
    /\ UNCHANGED <<beyondRelay, retried, hostUI, guestUI, hostConnections, connected, hostInbox,
                   joinTimers>>

RemoteSendsHost(msg) ==
    /\ remoteSent < MaxRemote
    /\ Len(hostInbox) < MaxQueue
    /\ remoteSent' = remoteSent + 1
    /\ hostInbox' = Append(hostInbox, msg)
    /\ UNCHANGED <<beyondRelay, retried, hostUI, guestUI, hostConnections, connected, inbox,
                   joinTimers, synced>>

-----------------------------------------------------------------------------
\* The steps of the host and guest Apps and their session channel, but for the
\* Try Again button.
RelaySteps ==
    \/ \E g \in Guests : GuestConnectionOpen(g)
    \/ \E g \in Guests : HostConnectionOpen(g)
    \/ \E g \in Guests : GuestBack(g)
    \/ \E g \in Guests : GuestEnter(g)
    \/ \E g \in Guests : RequestJoin(g)
    \/ \E g \in Guests : JoinTimerFires(g)
    \/ \E g \in Guests : GuestReceive(g)
    \/ HostReceive
    \/ \E accept \in BOOLEAN : HandleGuestResponse(accept)
    \/ ClearTranscript
    \/ \E text \in Texts : HostTranscription(text)

\* The relay on a channel that peers other than this program can write to.
RelayNext ==
    \/ RelaySteps
    \/ \E g \in Guests : TryAgain(g, FALSE)
    \/ \E g \in Guests, msg \in RemoteToGuest : RemoteSendsGuest(g, msg)
    \/ \E msg \in RemoteToHost : RemoteSendsHost(msg)

\* The relay between one host and its guest alone, the guest's retries noted
\* in `retried`.
RelayNextRetry ==
    \/ RelaySteps
    \/ \E g \in Guests : TryAgain(g, TRUE)

-----------------------------------------------------------------------------
(* WhisperService (components/AudioVisualizer.tsx): capture, buffering,      *)
(* flushing and the handling of the endpoint's replies.                      *)

TARGET_SAMPLE_RATE == 16000
ScriptProcessorSize == 4096
InputSampleRate == 48000

CeilDiv(a, b) == (a + b - 1) \div b

\* resampleToTarget: the length of the block it returns
ResampledLength(inputLength, inputSampleRate) ==
    IF inputSampleRate = TARGET_SAMPLE_RATE
    THEN inputLength
    ELSE CeilDiv(inputLength * TARGET_SAMPLE_RATE, inputSampleRate)

\* one resampled block: its place in the capture order and its number of
\* samples (the samples themselves are left open)
Block(n) ==
    [n |-> n, length |-> ResampledLength(ScriptProcessorSize, InputSampleRate)]

\* isSilent(flatBuffer): the verdict depends on the samples, so either one
SilentOutcomes == BOOLEAN

RECURSIVE Flatten(_)
Flatten(chunks) ==
    IF chunks = << >> THEN << >> ELSE Head(chunks) \o Flatten(Tail(chunks))

Remove(seq, i) == SubSeq(seq, 1, i - 1) \o SubSeq(seq, i + 1, Len(seq))

Includes(words, w) == \E i \in DOMAIN words : words[i] = w

IsSpace(c) == c = " "

RECURSIVE TrimStart(_)
TrimStart(str) ==
    IF str # << >> /\ IsSpace(Head(str)) THEN TrimStart(Tail(str)) ELSE str

RECURSIVE TrimEnd(_)
TrimEnd(str) ==
    IF str # << >> /\ IsSpace(str[Len(str)])
    THEN TrimEnd(SubSeq(str, 1, Len(str) - 1))
    ELSE str

\* A trim that returns the string as it is.
Untrimmed(str) == str

\* String.prototype.trim
Trim(str) == TrimEnd(TrimStart(str))

(* The endpoint's replies. status 0 stands for a fetch that rejects. *)
Hello == <<" ", "h", "i", " ">>
Blank == <<" ">>
ObjectText(t) == [kind |-> "object", text |-> <<t>>, error |-> << >>]

ListText(t) == [kind |-> "list", text |-> <<t>>, error |-> << >>]

ErrorBody(e) == [kind |-> "object", text |-> << >>, error |-> <<e>>]

\* JSON with neither a text nor an error
NoText == [kind |-> "object", text |-> << >>, error |-> << >>]

\* not JSON
Garbage == [kind |-> "garbage", text |-> << >>, error |-> << >>]

OkBodies == {ObjectText(Hello), ListText(Hello), ObjectText(Blank), NoText, Garbage}
ErrorBodies == {ErrorBody(<<"Model", "is", "loading">>),
                ErrorBody(<<"Invalid", "token">>), Garbage}
ErrorStatuses == {401, 403, 407, 503}

StatusText(status) ==
    CASE status = 401 -> <<"Unauthorized">>
      [] status = 403 -> <<"Forbidden">>
      [] status = 407 -> <<"Proxy", "Authentication", "Required">>
      [] status = 503 -> <<"Service", "Unavailable">>
      [] OTHER        -> <<"OK">>

Response(status, body) == [status |-> status, body |-> body]
NetworkFailure == Response(0, Garbage)
ResponseOk(r) == r.status \in 200..299

Responses ==
    {Response(200, b) : b \in OkBodies}
    \cup {Response(st, b) : st \in {401, 503}, b \in ErrorBodies}
    \cup {Response(st, ErrorBody(<<"Invalid", "token">>)) : st \in ErrorStatuses}
    \cup {NetworkFailure}

\* A send that raises on the loading marker instead of signalling warm-up.
WarmupRaises ==
    [result |-> "throws", text |-> << >>, message |-> <<"Model", "is", "loading">>]

Returns(text) == [result |-> "returns", text |-> text, message |-> << >>]

Warmup == [result |-> "warmup", text |-> << >>, message |-> << >>]

Throws(msg) == [result |-> "throws", text |-> << >>, message |-> msg]

\* the text sendToHuggingFace reads out of a parsed 2xx body
ResultText(body) ==
    IF body.kind \in {"object", "list"} /\ body.text # << >>
    THEN body.text[1] ELSE << >>

\* sendToHuggingFace from the reply on: what it returns or throws
SendToHuggingFace(r) ==
    IF r.status = 0 THEN Throws(<<"Failed", "to", "fetch">>)
    ELSE IF ~ResponseOk(r)
    THEN IF r.body.kind # "garbage" /\ r.body.error # << >>
            /\ Includes(r.body.error[1], "loading")
         THEN Warmup
         ELSE Throws(<<"HF", "API", "Error:", ToString(r.status)>>
                     \o StatusText(r.status))
    ELSE IF r.body.kind = "garbage" THEN Throws(<<"Unexpected", "token">>)
    ELSE Returns(Trim(ResultText(r.body)))

\* what sendToHuggingFace does with each of the replies
Outcome == [r \in Responses |-> SendToHuggingFace(r)]

\* A request whose failure is always handled by processAudioChunk's catch.
CaughtAsChunk(kind, chunk) == [kind |-> "chunk", chunk |-> chunk]

\* A request waiting for its reply: who awaits it (connect's .catch for the
\* pre-roll, processAudioChunk's try for a chunk) and the blocks it carries.
Request(kind, chunk) == [kind |-> kind, chunk |-> chunk]

WhisperInit ==
    /\ isConnected = FALSE
    /\ hasSuccessfullyTranscribed = FALSE
    /\ audioBuffer = << >>
    /\ bufferLength = 0
    /\ processingInterval = 0
    /\ inputAudioContext = "null"
    /\ mediaStream = "null"
    /\ processor = "null"
    /\ intervals = {}
    /\ liveProcessors = 0
    /\ liveStreams = 0
    /\ pendingMic = 0
    /\ pendingClose = 0
    /\ inflight = << >>
    /\ now = 0
    /\ calls = << >>
    /\ entries = << >>
    /\ disconnected = FALSE
    /\ arrived = << >>
    /\ flushed = << >>
    /\ blocks = 0
    /\ apiCalls = 0

history == <<arrived, flushed>>

\* A flush that leaves the buffer as it found it.
KeepBuffer(buffer) == buffer

\* this.audioBuffer = [] (the buffer the service holds after a flush took it)
ResetBuffer(buffer) == << >>

\* A flush that waits while an earlier request has no reply yet.
ProcessAudioChunkWaits(connectedNow, silent, waiting) ==
    IF ~connectedNow \/ bufferLength = 0 \/ waiting # << >>
    THEN /\ inflight' = waiting
         /\ UNCHANGED <<audioBuffer, bufferLength, flushed>>
    ELSE /\ audioBuffer' = << >>
         /\ bufferLength' = 0
         /\ flushed' = Append(flushed, audioBuffer)
         /\ inflight' = IF silent THEN waiting
                        ELSE Append(waiting, Request("chunk", audioBuffer))

\* processAudioChunk up to its request: called with the isConnected it reads,
\* the verdict of the silence gate and the requests already waiting
ProcessAudioChunk(connectedNow, silent, waiting) ==
    IF ~connectedNow \/ bufferLength = 0
    THEN /\ inflight' = waiting
         /\ UNCHANGED <<audioBuffer, bufferLength, flushed>>
    ELSE /\ audioBuffer' = ResetBuffer(audioBuffer)
         /\ bufferLength' = 0
         /\ flushed' = Append(flushed, audioBuffer)
         /\ inflight' = IF silent THEN waiting
                        ELSE Append(waiting, Request("chunk", audioBuffer))

\* disconnect(): everything up to the wait for AudioContext.close(), and the
\* rest at once when there is no audio context to close
Disconnect(before, waiting) ==
    /\ isConnected' = FALSE
    /\ intervals' = intervals \ {processingInterval}
    /\ IF bufferLength > 0
       THEN \E silent \in SilentOutcomes :
                ProcessAudioChunk(FALSE, silent, waiting)
       ELSE /\ inflight' = waiting
            /\ UNCHANGED <<audioBuffer, bufferLength, flushed>>
    /\ liveProcessors' = 0
    /\ liveStreams' = IF mediaStream = "live" THEN liveStreams - 1 ELSE liveStreams
    /\ IF inputAudioContext # "null"
       THEN /\ inputAudioContext' = "closing"
            /\ pendingClose' = pendingClose + 1
            /\ processor' = IF processor = "live" THEN "disconnected" ELSE processor
            /\ mediaStream' = IF mediaStream = "live" THEN "stopped" ELSE mediaStream
            /\ calls' = before
            /\ UNCHANGED disconnected
       ELSE /\ processor' = "null"
            /\ mediaStream' = "null"
            /\ calls' = Append(before, "onDisconnect")
            /\ disconnected' = TRUE
            /\ UNCHANGED <<inputAudioContext, pendingClose>>
    /\ UNCHANGED <<processingInterval, arrived>>

\* connect() up to its wait for getUserMedia
ConnectCall ==
    /\ apiCalls < MaxApiCalls
    /\ apiCalls' = apiCalls + 1
    /\ calls' = << >>
    /\ IF isConnected
       THEN UNCHANGED <<inputAudioContext, pendingMic>>
       ELSE /\ inputAudioContext' = "running"
            /\ pendingMic' = pendingMic + 1
    /\ UNCHANGED <<beyondWhisper, isConnected, hasSuccessfullyTranscribed, audioBuffer,
                   bufferLength,
                   processingInterval, mediaStream, processor, intervals, liveProcessors,
                   liveStreams, pendingClose, inflight, now, entries, disconnected,
                   history, blocks>>

\* setInterval's return value: a number that no earlier call returned (between
\* two resolutions of getUserMedia either a connect() was called or one call
\* fewer is waiting).
IntervalId == apiCalls * (MaxApiCalls + 1) + pendingMic

\* getUserMedia resolves: the rest of connect()
MicGranted ==
    /\ pendingMic > 0
    /\ pendingMic' = pendingMic - 1
    /\ mediaStream' = "live"
    /\ liveStreams' = liveStreams + 1
    /\ IF inputAudioContext = "null"
       THEN \* createMediaStreamSource on null throws; the catch reports it
            /\ calls' = <<"onError">>
            /\ UNCHANGED <<processor, liveProcessors, isConnected, inflight,
                           processingInterval, intervals>>
       ELSE /\ processor' = "live"
            /\ liveProcessors' = IF inputAudioContext = "running"
                                 THEN liveProcessors + 1 ELSE liveProcessors
            /\ isConnected' = TRUE
            /\ calls' = <<"onConnect">>
            /\ inflight' = Append(inflight, Request("warmup", << >>))
            /\ processingInterval' = IntervalId
            /\ intervals' = intervals \cup {IntervalId}
    /\ UNCHANGED <<beyondWhisper, hasSuccessfullyTranscribed, audioBuffer, bufferLength,
                   inputAudioContext, pendingClose, now, entries, disconnected,
                   history, blocks, apiCalls>>

\* getUserMedia rejects: connect()'s catch
MicDenied ==
    /\ pendingMic > 0
    /\ pendingMic' = pendingMic - 1
    /\ calls' = <<"onError">>
    /\ UNCHANGED <<beyondWhisper, isConnected, hasSuccessfullyTranscribed, audioBuffer,
                   bufferLength,
                   processingInterval, inputAudioContext, mediaStream, processor,
                   intervals, liveProcessors, liveStreams, pendingClose, inflight, now,
                   entries, disconnected, history, blocks, apiCalls>>

\* processor.onaudioprocess
AudioProcess ==
    /\ liveProcessors > 0
    /\ blocks < MaxBlocks
    /\ blocks' = blocks + 1
    /\ calls' = << >>
    /\ IF ~isConnected
       THEN UNCHANGED <<audioBuffer, bufferLength, arrived>>
       ELSE LET processed == Block(blocks + 1) IN
            /\ audioBuffer' = Append(audioBuffer, processed)
            /\ bufferLength' = bufferLength + processed.length
            /\ arrived' = Append(arrived, processed)
    /\ UNCHANGED <<beyondWhisper, isConnected, hasSuccessfullyTranscribed, processingInterval,
                   inputAudioContext, mediaStream, processor, intervals, liveProcessors,
                   liveStreams, pendingMic, pendingClose, inflight, now, entries,
                   disconnected, flushed, apiCalls>>

\* the setInterval callback: processAudioChunk up to its request
TimerFires(id) ==
    /\ id \in intervals
    /\ \E silent \in SilentOutcomes :
           ProcessAudioChunk(isConnected, silent, inflight)
    /\ calls' = << >>
    /\ UNCHANGED <<beyondWhisper, isConnected, hasSuccessfullyTranscribed, processingInterval,
                   inputAudioContext, mediaStream, processor, intervals, liveProcessors,
                   liveStreams, pendingMic, pendingClose, now, entries, disconnected,
                   arrived, blocks, apiCalls>>

\* Date.now() at a reply: the millisecond of the entry before it, or a later
\* one (the first entry is made after the service was)
Ticks == IF entries = << >> THEN {1} ELSE {0, 1}

\* Callbacks that signal ready with every entry.
ReadyEveryTime == <<"onReady", "onTranscription", "onBroadcastTranscript">>

\* the callbacks sendToHuggingFace makes for a non-empty trimmed text
EntryCalls ==
    (IF hasSuccessfullyTranscribed THEN << >> ELSE <<"onReady">>)
    \o <<"onTranscription", "onBroadcastTranscript">>

\* the reply to request i arrives: the rest of sendToHuggingFace, and the
\* catch of its caller
Reply(i, r) ==
    /\ i \in DOMAIN inflight
    /\ inflight' = Remove(inflight, i)
    /\ LET req == inflight[i]
           out == Outcome[r]
           rest == Remove(inflight, i)
       IN  CASE out.result = "returns" /\ out.text # << >> ->
                    /\ \E tick \in Ticks : now' = now + tick
                    /\ hasSuccessfullyTranscribed' = TRUE
                    /\ entries' = Append(entries,
                                         TranscriptEntry(ToString(now'), out.text))
                    /\ calls' = EntryCalls
                    /\ UNCHANGED <<isConnected, audioBuffer, bufferLength,
                                   processingInterval, inputAudioContext, mediaStream,
                                   processor, intervals, liveProcessors, liveStreams,
                                   pendingClose, disconnected, history>>
             [] out.result = "throws" /\ req.kind = "chunk"
                /\ Includes(out.message, "Authentication") ->
                    /\ Disconnect(<<"onError">>, rest)
                    /\ UNCHANGED <<hasSuccessfullyTranscribed, now, entries>>
             [] OTHER ->
                    /\ calls' = IF out.result = "warmup"
                                   \/ (out.result = "throws" /\ req.kind = "warmup")
                                THEN <<"onWarmup">> ELSE << >>
                    /\ UNCHANGED <<isConnected, hasSuccessfullyTranscribed, audioBuffer,
                                   bufferLength, processingInterval, inputAudioContext,
                                   mediaStream, processor, intervals, liveProcessors,
                                   liveStreams, pendingClose, now, entries, disconnected,
                                   history>>
    /\ UNCHANGED <<beyondWhisper, pendingMic, blocks, apiCalls>>

\* disconnect() is called
DisconnectCall ==
    /\ apiCalls < MaxApiCalls
    /\ apiCalls' = apiCalls + 1
    /\ Disconnect(<< >>, inflight)
    /\ UNCHANGED <<beyondWhisper, hasSuccessfullyTranscribed, pendingMic, now, entries, blocks>>

\* AudioContext.close() resolves: the rest of disconnect()
CloseDone ==
    /\ pendingClose > 0
    /\ pendingClose' = pendingClose - 1
    /\ processor' = "null"
    /\ mediaStream' = "null"
    /\ inputAudioContext' = "null"
    /\ calls' = <<"onDisconnect">>
    /\ disconnected' = TRUE
    /\ UNCHANGED <<beyondWhisper, isConnected, hasSuccessfullyTranscribed, audioBuffer,
                   bufferLength,
                   processingInterval, intervals, liveProcessors, liveStreams,
                   pendingMic, inflight, now, entries, history, blocks, apiCalls>>

WhisperNext ==
    \/ ConnectCall
    \/ MicGranted
    \/ MicDenied
    \/ AudioProcess
    \/ \E id \in intervals : TimerFires(id)
    \/ \E i \in DOMAIN inflight, r \in Responses : Reply(i, r)
    \/ DisconnectCall
    \/ CloseDone

-----------------------------------------------------------------------------------------------------------------------------------------------------
(* SignalingService (services/signaling.ts): one instance, the PeerJS       *)
(* objects it holds and the events the library delivers to its handlers.    *)

(* Bounds of the SignalingService model *)
MaxConns == 2
MaxTimers == 2
MaxSends == 2

\* setTimeout(..., 2000) of the guest's error handler
RetryDelay == 2000

ConnIds == 1..MaxConns
TimerIds == 1..MaxTimers

\* A DataConnection as the library sees it: "none" (no such object), "pending"
\* (created, not open yet), "failed" (the dial failed and the peer's
\* 'peer-unavailable' error is on its way to the handler), "open", "dropped"
\* (conn.open is false and the 'close' event is on its way to the handler).
ConnStates == {"none", "pending", "failed", "open", "dropped"}

SignalingInit ==
    /\ service = [role |-> "guest", peer |-> "null", connections |-> << >>,
                  retryTimer |-> 0]
    /\ peerjs = [conn |-> [c \in ConnIds |-> "none"],
                 timeouts |-> {},          \* scheduled setTimeout callbacks
                 openEvent |-> FALSE,      \* the guest peer's 'open' is on its way
                 hostReachable |-> FALSE,  \* a peer with the session's id is registered
                 wire |-> [c \in ConnIds |-> 0],  \* conn.send calls, per connection
                 sends |-> 0,              \* send() calls so far
                 connectCalled |-> FALSE,
                 closeCalled |-> FALSE,
                 refused |-> FALSE,        \* connectToHost returned at its guard
                 redialed |-> FALSE]       \* the retry timer has dialled the host

\* Array.prototype.filter(c => c !== conn)
Without(list, c) == SelectSeq(list, LAMBDA x : x # c)

InList(list, c) == \E k \in DOMAIN list : list[k] = c

\* A connectToHost that dials whatever the state of the peer.
DialsAnyway(sv, pj) ==
    IF \E c \in ConnIds : pj.conn[c] = "none"
    THEN LET c == CHOOSE c \in ConnIds :
                    pj.conn[c] = "none" /\ \A d \in ConnIds : pj.conn[d] = "none" => c <= d
         IN [pj EXCEPT !.conn[c] = "pending", !.wire[c] = 0]
    ELSE pj

\* connectToHost(hostId): return if the peer is gone; otherwise peer.connect and
\* setupConnection on the new connection.  The result is the library's state.
ConnectToHost(sv, pj) ==
    IF sv.peer = "null"
    THEN [pj EXCEPT !.refused = TRUE]
    ELSE IF \E c \in ConnIds : pj.conn[c] = "none"
    THEN LET c == CHOOSE c \in ConnIds :
                    pj.conn[c] = "none" /\ \A d \in ConnIds : pj.conn[d] = "none" => c <= d
         IN [pj EXCEPT !.conn[c] = "pending", !.wire[c] = 0]
    ELSE pj

\* clearTimeout(id): a no-op on null and on an id that fired or was cleared.
ClearTimeout(timeouts, id) == {t \in timeouts : t.id # id}

\* An error handler that arms no timer.
GivesUp(sv, timeouts) == <<sv.retryTimer, timeouts>>

\* The guest's handler of 'peer-unavailable': clear the old timer, arm a new
\* one.  The result is the pair <<retryTimer, timeouts>>.
ArmRetry(sv, timeouts) ==
    LET cleared == IF sv.retryTimer # 0 THEN ClearTimeout(timeouts, sv.retryTimer)
                   ELSE timeouts
        id == CHOOSE i \in TimerIds :
                /\ \A t \in cleared : t.id # i
                /\ \A j \in TimerIds : (\A t \in cleared : t.id # j) => i <= j
    IN <<id, cleared \cup {[id |-> id, ms |-> RetryDelay]}>>

\* connect(role, onMessage): create the peer and register its handlers.
SignalingConnect(role) ==
    /\ ~peerjs.connectCalled
    /\ service' = [service EXCEPT !.role = role, !.peer = "live"]
    /\ peerjs' = [peerjs EXCEPT !.connectCalled = TRUE, !.openEvent = (role = "guest")]
    /\ UNCHANGED beyondSignaling

\* peer.on('open') of the guest: connectToHost.
PeerOpenEvent ==
    /\ peerjs.openEvent
    /\ peerjs' = ConnectToHost(service, [peerjs EXCEPT !.openEvent = FALSE])
    /\ UNCHANGED <<beyondSignaling, service>>

\* The library finds no peer under the host's id: the dial is over and the
\* guest peer's 'error' event of type 'peer-unavailable' is raised.
DialFails(c) ==
    /\ service.role = "guest"
    /\ peerjs.conn[c] = "pending"
    /\ ~peerjs.hostReachable
    /\ peerjs' = [peerjs EXCEPT !.conn[c] = "failed"]
    /\ UNCHANGED <<beyondSignaling, service>>

\* peer.on('error') of the guest with err.type === 'peer-unavailable'.
PeerErrorEvent(c) ==
    /\ peerjs.conn[c] = "failed"
    /\ TimerIds # {t.id : t \in ClearTimeout(peerjs.timeouts, service.retryTimer)}
    /\ LET armed == ArmRetry(service, peerjs.timeouts) IN
        /\ service' = [service EXCEPT !.retryTimer = armed[1]]
        /\ peerjs' = [peerjs EXCEPT !.conn[c] = "none", !.timeouts = armed[2]]
    /\ UNCHANGED beyondSignaling

\* The retry timer's callback: connectToHost.
RetryTimerFires(id) ==
    /\ \E t \in peerjs.timeouts : t.id = id
    /\ LET fired == [peerjs EXCEPT !.timeouts = {t \in @ : t.id # id}]
           after == ConnectToHost(service, fired)
       IN peerjs' = [after EXCEPT !.redialed = @ \/ after.conn # fired.conn]
    /\ UNCHANGED <<beyondSignaling, service>>

\* peer.on('connection') of the host: setupConnection on the incoming connection.
ConnectionArrives(c) ==
    /\ service.role = "host"
    /\ service.peer = "live"
    /\ peerjs.conn[c] = "none"
    /\ peerjs' = [peerjs EXCEPT !.conn[c] = "pending", !.wire[c] = 0]
    /\ UNCHANGED <<beyondSignaling, service>>

\* conn.on('open'): push the connection, stop a pending retry.
ConnOpenEvent(c) ==
    /\ peerjs.conn[c] = "pending"
    /\ service.role = "host" \/ peerjs.hostReachable
    /\ service' = [service EXCEPT !.connections = Append(@, c), !.retryTimer = 0]
    /\ peerjs' = [peerjs EXCEPT
                    !.conn[c] = "open",
                    !.timeouts = IF service.retryTimer # 0
                                 THEN ClearTimeout(@, service.retryTimer) ELSE @]
    /\ UNCHANGED beyondSignaling

\* The other end closes or is lost: conn.open turns false, 'close' is raised.
ConnDrops(c) ==
    /\ peerjs.conn[c] = "open"
    /\ peerjs' = [peerjs EXCEPT !.conn[c] = "dropped"]
    /\ UNCHANGED <<beyondSignaling, service>>

\* conn.on('close'): filter the connection out of the list.
ConnCloseEvent(c) ==
    /\ peerjs.conn[c] = "dropped"
    /\ service' = [service EXCEPT !.connections = Without(@, c)]
    /\ peerjs' = [peerjs EXCEPT !.conn[c] = "none"]
    /\ UNCHANGED beyondSignaling

\* A send that writes on every connection of the list, open or not.
SendsOnAll(list, states, wire) ==
    [c \in ConnIds |-> IF InList(list, c) THEN wire[c] + 1 ELSE wire[c]]

\* send(message): conn.send on every connection of the list that is open.
\* The result is the number of conn.send calls per connection.
Send(list, states, wire) ==
    [c \in ConnIds |-> IF InList(list, c) /\ states[c] = "open"
                       THEN wire[c] + 1 ELSE wire[c]]

SignalingSend ==
    /\ peerjs.connectCalled
    /\ peerjs.sends < MaxSends
    /\ peerjs' = [peerjs EXCEPT !.sends = @ + 1,
                                !.wire = Send(service.connections, peerjs.conn, @)]
    /\ UNCHANGED <<beyondSignaling, service>>

\* close(): clearTimeout, close every connection of the list, empty the list,
\* destroy the peer (which ends the connections that are not open yet).
SignalingClose ==
    /\ peerjs.connectCalled
    /\ ~peerjs.closeCalled
    /\ service' = [service EXCEPT !.connections = << >>, !.peer = "null"]
    /\ peerjs' = [peerjs EXCEPT
                    !.closeCalled = TRUE,
                    !.timeouts = IF service.retryTimer # 0
                                 THEN ClearTimeout(@, service.retryTimer) ELSE @,
                    !.conn = [c \in ConnIds |->
                                CASE @[c] = "open" -> "dropped"
                                  [] @[c] = "pending" -> "none"
                                  [] OTHER -> @[c]]]
    /\ UNCHANGED beyondSignaling

\* The host's peer registers under the session's id, or goes away.
HostAppears ==
    /\ service.role = "guest"
    /\ peerjs.connectCalled
    /\ ~peerjs.hostReachable
    /\ peerjs' = [peerjs EXCEPT !.hostReachable = TRUE]
    /\ UNCHANGED <<beyondSignaling, service>>

HostDisappears ==
    /\ peerjs.hostReachable
    /\ peerjs' = [peerjs EXCEPT !.hostReachable = FALSE]
    /\ UNCHANGED <<beyondSignaling, service>>

SignalingNext ==
    \/ \E role \in {"host", "guest"} : SignalingConnect(role)
    \/ PeerOpenEvent
    \/ \E c \in ConnIds : DialFails(c)
    \/ \E c \in ConnIds : PeerErrorEvent(c)
    \/ \E id \in TimerIds : RetryTimerFires(id)
    \/ \E c \in ConnIds : ConnectionArrives(c)
    \/ \E c \in ConnIds : ConnOpenEvent(c)
    \/ \E c \in ConnIds : ConnDrops(c)
    \/ \E c \in ConnIds : ConnCloseEvent(c)
    \/ SignalingSend
    \/ SignalingClose
    \/ HostAppears
    \/ HostDisappears

-----------------------------------------------------------------------------
(* SignalingService.connect: the peer id derived from the session id.  *)

(* Bound of the session ids *)
MaxIdLen == 2

UpperCase == <<"A", "B", "C", "D", "E", "F", "G", "H", "I", "J", "K", "L", "M",
               "N", "O", "P", "Q", "R", "S", "T", "U", "V", "W", "X", "Y", "Z">>
LowerCase == <<"a", "b", "c", "d", "e", "f", "g", "h", "i", "j", "k", "l", "m",
               "n", "o", "p", "q", "r", "s", "t", "u", "v", "w", "x", "y", "z">>
Digits == {"0", "1", "2", "3", "4", "5", "6", "7", "8", "9"}

\* The characters session ids are made of here: a letter in both cases, a
\* digit and a character that is neither.
IdChars == {"b", "B", "7", "-"}

\* The session ids of at most MaxIdLen characters.
SessionIds == UNION {[1..n -> IdChars] : n \in 0..MaxIdLen}

\* A toLowerCase that changes nothing.
KeepsCase(s) == s

\* String.prototype.toLowerCase
ToLowerCase(s) ==
    [k \in DOMAIN s |->
        IF \E i \in DOMAIN UpperCase : UpperCase[i] = s[k]
        THEN LowerCase[CHOOSE i \in DOMAIN UpperCase : UpperCase[i] = s[k]]
        ELSE s[k]]

\* replace(/[^a-z0-9]/g, '')
StripNonAlnum(s) ==
    SelectSeq(s, LAMBDA ch : ch \in Digits \/ \E i \in DOMAIN LowerCase : LowerCase[i] = ch)

\* `dysarthria-${...}`
Prefix == <<"d", "y", "s", "a", "r", "t", "h", "r", "i", "a", "-">>

CleanSessionId(sessionId) == Prefix \o StripNonAlnum(ToLowerCase(sessionId))

\* No service has connected; the session ids are the empty string.
ChannelInit ==
    channel = [hostSession |-> << >>, guestSession |-> << >>,
               hostPeerId |-> << >>, guestDials |-> << >>]

\* A host and a guest that were given any two session ids.
ChannelInputs ==
    channel \in [hostSession : SessionIds, guestSession : SessionIds,
                 hostPeerId : {<< >>}, guestDials : {<< >>}]

\* connect('host', ...): new Peer(cleanSessionId)
HostPeerCreated ==
    /\ channel.hostPeerId = << >>
    /\ channel' = [channel EXCEPT !.hostPeerId = CleanSessionId(channel.hostSession)]
    /\ UNCHANGED beyondChannel

\* connect('guest', ...): connectToHost(cleanSessionId)
GuestDialsHost ==
    /\ channel.guestDials = << >>
    /\ channel' = [channel EXCEPT !.guestDials = CleanSessionId(channel.guestSession)]
    /\ UNCHANGED beyondChannel

ChannelNext == HostPeerCreated \/ GuestDialsHost

-----------------------------------------------------------------------------
(* WhisperService: the silence gate, with the values of the samples.  A     *)
(* sample is its amplitude in thousandths (1000 is full scale).             *)

(* Bounds of the silence gate model *)
MaxBuffered == 2
MaxFlushes == 2

\* return avg < 0.008, in thousandths
SilenceThreshold == 8

\* Samples per captured block.
BlockSamples == 2

\* The amplitudes samples take here: zero, just under and just over the
\* threshold (the latter negative), and full scale.
Levels == {0, 7, -9, 1000}

SampleBlocks == [1..BlockSamples -> Levels]

\* An absolute value that keeps the sign.
Signed(x) == x

\* Math.abs
Abs(x) == IF x < 0 THEN 0 - x ELSE x

\* let sum = 0; for (...) sum += Math.abs(samples[i])
RECURSIVE SumAbs(_)
SumAbs(samples) ==
    IF samples = << >> THEN 0 ELSE Abs(Head(samples)) + SumAbs(Tail(samples))

\* isSilent(samples): avg = sum / samples.length; return avg < 0.008.  On no
\* samples avg is NaN and the comparison is false.
IsSilent(samples) ==
    /\ Len(samples) > 0
    /\ SumAbs(samples) < SilenceThreshold * Len(samples)

GateInit ==
    gate = [isConnected |-> FALSE, audioBuffer |-> << >>, bufferLength |-> 0,
            waiting |-> 0,      \* requests waiting for their reply
            entries |-> 0,      \* entries handed to onTranscription
            flushes |-> 0,      \* processAudioChunk calls so far
            skipped |-> FALSE]  \* a chunk was dropped at the silence gate

\* connect(), once the microphone is granted.
GateConnect ==
    /\ ~gate.isConnected
    /\ gate' = [gate EXCEPT !.isConnected = TRUE]
    /\ UNCHANGED beyondGate

\* processor.onaudioprocess with a block of the given samples.
GateAudioProcess(block) ==
    /\ gate.isConnected
    /\ Len(gate.audioBuffer) < MaxBuffered
    /\ gate' = [gate EXCEPT !.audioBuffer = Append(@, block),
                            !.bufferLength = @ + Len(block)]
    /\ UNCHANGED beyondGate

\* processAudioChunk up to its request.
GateProcessAudioChunk ==
    /\ gate.flushes < MaxFlushes
    /\ IF ~gate.isConnected \/ gate.bufferLength = 0
       THEN gate' = [gate EXCEPT !.flushes = @ + 1]
       ELSE LET flatBuffer == Flatten(gate.audioBuffer) IN
            gate' = [gate EXCEPT
                        !.flushes = @ + 1,
                        !.audioBuffer = << >>,
                        !.bufferLength = 0,
                        !.waiting = IF IsSilent(flatBuffer) THEN @ ELSE @ + 1,
                        !.skipped = @ \/ IsSilent(flatBuffer)]
    /\ UNCHANGED beyondGate

\* A reply with text to a waiting request: one entry.
GateReply ==
    /\ gate.waiting > 0
    /\ gate' = [gate EXCEPT !.waiting = @ - 1, !.entries = @ + 1]
    /\ UNCHANGED beyondGate

GateNext ==
    \/ GateConnect
    \/ \E block \in SampleBlocks : GateAudioProcess(block)
    \/ GateProcessAudioChunk
    \/ GateReply

-----------------------------------------------------------------------------
(* WhisperService.encodeToWAV, byte by byte.  A sample is its amplitude in   *)
(* thousandths (1000 is full scale); a byte is a number in 0..255.           *)

(* Bounds of the encoder model *)
MaxSamples == 2
MaxEncodes == 2

\* The amplitudes samples take here: beyond full scale on both sides, full
\* scale on both sides, the smallest negative amplitude, zero and a half.
WavLevels == {-2000, -1000, -1, 0, 500, 1000, 1500}

\* The sample rates an encoding is asked for.
WavRates == {TARGET_SAMPLE_RATE, InputSampleRate}

WavSamples == UNION {[1..n -> WavLevels] : n \in 0..MaxSamples}

\* str.charCodeAt(i)
CharCodeAt(ch) ==
    CASE ch = "R" -> 82  [] ch = "I" -> 73  [] ch = "F" -> 70  [] ch = "W" -> 87
      [] ch = "A" -> 65  [] ch = "V" -> 86  [] ch = "E" -> 69  [] ch = "f" -> 102
      [] ch = "m" -> 109 [] ch = "t" -> 116 [] ch = " " -> 32  [] ch = "d" -> 100
      [] ch = "a" -> 97

\* writeString(offset, str): one setUint8 per character.
WriteString(str) == [i \in 1..Len(str) |-> CharCodeAt(str[i])]

\* The little-endian bytes of a value in 0 .. 256^width - 1.
LittleEndian(value, width) == [k \in 1..width |-> (value \div 256^(k - 1)) % 256]

\* view.setUint32(offset, value, true); the values written here are below 2^31.
SetUint32(value) == LittleEndian(value, 4)

\* view.setUint16(offset, value, true)
SetUint16(value) == LittleEndian(value % 65536, 2)

\* The integer a DataView setter makes of the number num / den: the fraction is
\* dropped, toward zero.
ToInteger(num, den) == IF num < 0 THEN 0 - ((0 - num) \div den) ELSE num \div den

\* view.setInt16(offset, value, true): the integer modulo 2^16, in two's complement.
SetInt16(num, den) == LittleEndian(((ToInteger(num, den) % 65536) + 65536) % 65536, 2)

\* A sample written as it comes.
Unclamped(x) == x

\* Math.max(-1, Math.min(1, samples[i]))
Clamp(x) == IF x > 1000 THEN 1000 ELSE IF x < -1000 THEN -1000 ELSE x

\* s < 0 ? s * 0x8000 : s * 0x7FFF, in thousandths
Scale(s) == IF s < 0 THEN s * 32768 ELSE s * 32767

\* encodeToWAV(samples, sampleRate): the bytes of the Blob.
EncodeToWAV(samples, sampleRate) ==
    WriteString(<<"R", "I", "F", "F">>)
    \o SetUint32(36 + Len(samples) * 2)
    \o WriteString(<<"W", "A", "V", "E">>)
    \o WriteString(<<"f", "m", "t", " ">>)
    \o SetUint32(16)
    \o SetUint16(1)
    \o SetUint16(1)
    \o SetUint32(sampleRate)
    \o SetUint32(sampleRate * 2)
    \o SetUint16(2)
    \o SetUint16(16)
    \o WriteString(<<"d", "a", "t", "a">>)
    \o SetUint32(Len(samples) * 2)
    \o Flatten([i \in 1..Len(samples) |-> SetInt16(Scale(Clamp(samples[i])), 1000)])

\* No input chosen, no call made.
WavInit == wav = [samples |-> << >>, sampleRate |-> TARGET_SAMPLE_RATE, blobs |-> << >>]

\* Any samples, at any of the rates.
WavInputs == wav \in [samples : WavSamples, sampleRate : WavRates, blobs : {<< >>}]

\* One call of encodeToWAV on the input; its result is kept after the earlier ones.
EncodeCall ==
    /\ Len(wav.blobs) < MaxEncodes
    /\ wav' = [wav EXCEPT !.blobs = Append(@, EncodeToWAV(wav.samples, wav.sampleRate))]
    /\ UNCHANGED beyondWav

WavNext == EncodeCall

-----------------------------------------------------------------------------
(* WhisperService.resampleToTarget, sample by sample.  A sample is its       *)
(* amplitude in 32000ths of full scale, so that every interpolated value     *)
(* met here is a whole number; the Float32 rounding of the result, which     *)
(* keeps the order of values, is left out.                                   *)

(* Bounds of the resampler model *)
MaxInput == 3
MaxResamples == 2

\* The amplitudes samples take here: full scale and a half on both sides, and zero.
ResamplerLevels == {-32000, -16000, 0, 16000, 32000}

\* inputAudioContext.sampleRate: the target rate, twice the target rate, and
\* the two rates audio hardware runs at.
ResamplerRates == {TARGET_SAMPLE_RATE, 32000, 44100, InputSampleRate}

ResamplerInputs == UNION {[1..n -> ResamplerLevels] : n \in 0..MaxInput}

\* A length that drops the last, partial step.
TruncatedLength(inputLength, inputSampleRate) ==
    (inputLength * TARGET_SAMPLE_RATE) \div inputSampleRate

\* Math.ceil(input.length / ratio), ratio being inputSampleRate / TARGET_SAMPLE_RATE
NewLength(inputLength, inputSampleRate) ==
    CeilDiv(inputLength * TARGET_SAMPLE_RATE, inputSampleRate)

\* The loop body for output index i (from 0): index = i * ratio, p its floor,
\* t its fraction (tn / TARGET_SAMPLE_RATE), s0 = input[p], s1 = input[p + 1]
\* or s0 past the end, and the value s0 * (1 - t) + s1 * t.
Interpolated(input, inputSampleRate, i) ==
    LET p  == (i * inputSampleRate) \div TARGET_SAMPLE_RATE
        tn == (i * inputSampleRate) % TARGET_SAMPLE_RATE
        s0 == input[p + 1]
        s1 == IF p + 1 < Len(input) THEN input[p + 2] ELSE s0
    IN  (s0 * (TARGET_SAMPLE_RATE - tn) + s1 * tn) \div TARGET_SAMPLE_RATE

\* resampleToTarget(input, inputSampleRate)
ResampleToTarget(input, inputSampleRate) ==
    IF inputSampleRate = TARGET_SAMPLE_RATE
    THEN input
    ELSE [k \in 1..NewLength(Len(input), inputSampleRate) |->
            Interpolated(input, inputSampleRate, k - 1)]

\* No input chosen, no call made.
ResamplerInit ==
    resampler = [input |-> << >>, inputSampleRate |-> TARGET_SAMPLE_RATE, outputs |-> << >>]

\* Any block, at any of the rates.
ResamplerChoices ==
    resampler \in [input : ResamplerInputs, inputSampleRate : ResamplerRates,
                   outputs : {<< >>}]

\* One call of resampleToTarget on the input; its result is kept after the
\* earlier ones.
ResampleCall ==
    /\ Len(resampler.outputs) < MaxResamples
    /\ resampler' = [resampler EXCEPT
            !.outputs = Append(@, ResampleToTarget(resampler.input,
                                                   resampler.inputSampleRate))]
    /\ UNCHANGED beyondResampler

ResamplerNext == ResampleCall

-----------------------------------------------------------------------------
(* Relay: the host leaves the host view.  setView('landing') re-runs the      *)
(* signaling effect, whose cleanup closes the host's SignalingService; the    *)
(* service created in its place takes the guest role and has no callback for  *)
(* the landing view.                                                          *)

HostViewInit == hostView = "host"

beyondLeave == <<whisperVars, signalingVars, channel, gate, wav, resampler>>

\* The host's header logo: setView('landing'), then signaling.close() closes
\* every connection and destroys the peer.  No message is sent first.  On the
\* guest's side the connection's close handler drops it from the service's
\* list and tells the App nothing.  What was written on a connection and not
\* yet handled is either still delivered or lost with the connection.
HostLeaves ==
    /\ hostView = "host"
    /\ hostView' = "landing"
    /\ hostConnections' = {}
    /\ hostInbox' = << >>
    /\ connected' = [g \in Guests |-> FALSE]
    /\ \E delivered \in BOOLEAN :
         inbox' = IF delivered THEN inbox ELSE [g \in Guests |-> << >>]
    /\ synced' = [g \in Guests |-> FALSE]
    /\ UNCHANGED <<beyondLeave, retried, hostUI, guestUI, joinTimers, remoteSent>>

\* A guest's dial completes only while the host's peer exists.
GuestDials(g) == hostView = "host" /\ GuestConnectionOpen(g)

HostAccepts(g) == hostView = "host" /\ HostConnectionOpen(g)

\* The join toast and the clear button are part of the host view.
HostDecides(accept) == hostView = "host" /\ HandleGuestResponse(accept)

HostClears == hostView = "host" /\ ClearTranscript

\* The relay between one host and its guest, with a host that can leave.
LeaveNext ==
    \/ \E g \in Guests : GuestDials(g)
    \/ \E g \in Guests : HostAccepts(g)
    \/ \E g \in Guests : GuestBack(g)
    \/ \E g \in Guests : GuestEnter(g)
    \/ \E g \in Guests : RequestJoin(g)
    \/ \E g \in Guests : JoinTimerFires(g)
    \/ \E g \in Guests : TryAgain(g, FALSE)
    \/ \E g \in Guests : GuestReceive(g)
    \/ HostReceive
    \/ \E accept \in BOOLEAN : HostDecides(accept)
    \/ HostClears
    \/ \E text \in Texts : HostTranscription(text)
    \/ HostLeaves

-----
Init ==
    /\ RelayInit /\ WhisperInit /\ SignalingInit /\ ChannelInit /\ GateInit
    /\ WavInit /\ ResamplerInit /\ HostViewInit

\* the session relay of App.tsx over SignalingService
Next == RelayNext

Spec == Init /\ [][Next]_vars

\* the capture service on its own
NextWhisper == WhisperNext

SpecWhisper == Init /\ [][NextWhisper]_vars

\* The relay, recording the guest's retries.
NextRetry == RelayNextRetry

SpecRetry == Init /\ [][NextRetry]_vars

\* The SignalingService on its own.
NextSignaling == SignalingNext

SpecSignaling == Init /\ [][NextSignaling]_vars

\* The SignalingService with the browser's scheduling: an event that is raised
\* is delivered, a timer that is armed fires, a dial comes to an end.
SignalingFairness ==
    /\ WF_vars(PeerOpenEvent)
    /\ \A c \in ConnIds : WF_vars(DialFails(c))
    /\ \A c \in ConnIds : WF_vars(PeerErrorEvent(c))
    /\ \A c \in ConnIds : WF_vars(ConnOpenEvent(c))
    /\ \A id \in TimerIds : WF_vars(RetryTimerFires(id))

SpecSignalingLive == Init /\ [][NextSignaling]_vars /\ SignalingFairness

\* The derivation of the peer id, for any session ids.
InitChannel ==
    /\ RelayInit /\ WhisperInit /\ SignalingInit /\ ChannelInputs /\ GateInit
    /\ WavInit /\ ResamplerInit /\ HostViewInit

NextChannel == ChannelNext

SpecChannel == InitChannel /\ [][NextChannel]_vars

\* The silence gate of a WhisperService, for any samples.
NextGate == GateNext

SpecGate == Init /\ [][NextGate]_vars

\* encodeToWAV, for any samples.
InitWav ==
    /\ RelayInit /\ WhisperInit /\ SignalingInit /\ ChannelInit /\ GateInit
    /\ WavInputs /\ ResamplerInit /\ HostViewInit

NextWav == WavNext

SpecWav == InitWav /\ [][NextWav]_vars

\* resampleToTarget, for any block.
InitResampler ==
    /\ RelayInit /\ WhisperInit /\ SignalingInit /\ ChannelInit /\ GateInit
    /\ WavInit /\ ResamplerChoices /\ HostViewInit

NextResampler == ResamplerNext

SpecResampler == InitResampler /\ [][NextResampler]_vars

\* The relay with a host that can leave, under the browser's scheduling: a
\* message that arrived is handled and a timer that is armed fires.  What
\* the users do is left to them.
NextLeave == LeaveNext

LeaveFairness ==
    /\ WF_vars(HostReceive)
    /\ \A g \in Guests : WF_vars(GuestReceive(g))
    /\ \A g \in Guests : WF_vars(JoinTimerFires(g))

SpecLeave == Init /\ [][NextLeave]_vars /\ LeaveFairness

-----------------------------------------------------------------------------
(* Relay: properties *)

\* The message at the head of a guest's inbox has one of the given types.
NextMessageIs(g, types) == inbox[g] # << >> /\ Head(inbox[g]).type \in types

\* The guest App, in the guest view, handles the message at the head of its inbox.
GuestHandles(g, types) == NextMessageIs(g, types) /\ view[g] = "guest" /\ GuestReceive(g)

\* The host approved a join request of this guest.
Approved(g) == \E i \in 1..Len(guests) : guests[i].id = g

\* C1: for a guest the host approved and that was connected on an open link at
\* every host emission and clear so far, once everything sent to it has been
\* delivered its transcript is exactly the host's: no entry missing, duplicated
\* or reordered.
C1_EndToEndTranscript ==
    \A g \in Guests :
        (Approved(g) /\ synced[g] /\ Listening(g) /\ inbox[g] = << >>)
            => transcript[g] = hostTranscript

\* C3: while a guest is pending, a JOIN_REQUEST from a different sender leaves the
\* pending guest as it is.
C3_PendingGuestNotReplaced ==
    [][(/\ pendingGuest # << >>
        /\ hostInbox # << >>
        /\ Head(hostInbox).type = "JOIN_REQUEST"
        /\ Head(hostInbox).senderId # Head(pendingGuest).id
        /\ HostReceive)
       => pendingGuest' = pendingGuest]_vars

\* C4: the guest's status changes only along idle->requesting (requestJoin),
\* requesting->connected (JOIN_APPROVED), requesting->rejected (JOIN_REJECTED),
\* rejected->idle (retry) and any->idle (SESSION_ENDED).
C4_GuestStatusEdges ==
    [][\A g \in Guests :
        LET from == guestConnectionStatus[g]
            to   == guestConnectionStatus'[g]
        IN  \/ to = from
            \/ from = "idle" /\ to = "requesting" /\ RequestJoin(g)
            \/ from = "requesting" /\ to = "connected" /\ GuestHandles(g, {"JOIN_APPROVED"})
            \/ from = "requesting" /\ to = "rejected" /\ GuestHandles(g, {"JOIN_REJECTED"})
            \/ from = "rejected" /\ to = "idle" /\ TryAgain(g, FALSE)
            \/ to = "idle" /\ GuestHandles(g, {"SESSION_ENDED"})]_vars

\* C7: a connected guest appends the entry of every TRANSCRIPT_UPDATE it receives
\* and empties its transcript on every TRANSCRIPT_CLEAR it receives.
C7_ConnectedGuestApplies ==
    [][\A g \in Guests :
        (Approved(g) /\ guestConnectionStatus[g] = "connected") =>
            /\ GuestHandles(g, {"TRANSCRIPT_UPDATE"}) =>
                    transcript'[g] = Append(transcript[g], Head(Head(inbox[g]).entry))
            /\ GuestHandles(g, {"TRANSCRIPT_CLEAR"}) => transcript'[g] = << >>]_vars

\* C8: a guest that is not connected ignores TRANSCRIPT_UPDATE and
\* TRANSCRIPT_CLEAR: transcript and status stay as they are.
C8_UnconnectedGuestIgnores ==
    [][\A g \in Guests :
        (/\ guestConnectionStatus[g] # "connected"
         /\ GuestHandles(g, {"TRANSCRIPT_UPDATE", "TRANSCRIPT_CLEAR"}))
        => /\ transcript'[g] = transcript[g]
           /\ guestConnectionStatus'[g] = guestConnectionStatus[g]]_vars

\* Exactly one message of the given type and guestId is written on every open
\* host connection, and nothing on any other link.
SentOnce(type, gid) ==
    \A g \in Guests :
        IF g \in hostConnections
        THEN /\ Len(inbox'[g]) = Len(inbox[g]) + 1
             /\ SubSeq(inbox'[g], 1, Len(inbox[g])) = inbox[g]
             /\ inbox'[g][Len(inbox'[g])].type = type
             /\ inbox'[g][Len(inbox'[g])].guestId = gid
        ELSE inbox'[g] = inbox[g]

\* C9: with a pending guest G, approve sends one JOIN_APPROVED{guestId: G.id},
\* appends G with status connected and clears the pending slot; reject sends one
\* JOIN_REJECTED{guestId: G.id}, leaves the guest list alone and clears the slot;
\* with no pending guest a decision changes nothing.
C9_HostDecision ==
    [][/\ (pendingGuest # << >> /\ HandleGuestResponse(TRUE)) =>
            /\ SentOnce("JOIN_APPROVED", Head(pendingGuest).id)
            /\ guests' = Append(guests, [id |-> Head(pendingGuest).id,
                                         name |-> Head(pendingGuest).name,
                                         status |-> "connected"])
            /\ pendingGuest' = << >>
       /\ (pendingGuest # << >> /\ HandleGuestResponse(FALSE)) =>
            /\ SentOnce("JOIN_REJECTED", Head(pendingGuest).id)
            /\ guests' = guests
            /\ pendingGuest' = << >>
       /\ (pendingGuest = << >> /\ \E accept \in BOOLEAN : HandleGuestResponse(accept)) =>
            UNCHANGED vars]_vars

\* C9 witness: the host has approved one request and rejected another, and both
\* answers are on the wire or delivered.
C9_Witness ==
    /\ guests # << >>
    /\ pendingGuest = << >>
    /\ \E g \in Guests : \E i \in 1..Len(inbox[g]) : inbox[g][i].type = "JOIN_REJECTED"

-----------------------------------------------------------------------------
(* WhisperService: properties *)

\* The reply r (one of Responses) to the waiting request i is handled in this step.
Replied(i, r) == i \in DOMAIN inflight /\ Reply(i, r)

CountOf(seq, x) == Cardinality({k \in DOMAIN seq : seq[k] = x})

Waiting(queue) == {queue[k] : k \in DOMAIN queue}

\* C2: disconnect() on a connected service with a non-empty buffer takes the
\* whole buffer as one final chunk for the silence gate / encode / transcribe
\* chain, so nothing buffered is left behind by stopping.
C2_DisconnectDrainsBuffer ==
    [][(DisconnectCall /\ isConnected /\ audioBuffer # << >>)
       => /\ flushed' = Append(flushed, audioBuffer)
          /\ audioBuffer' = << >>]_vars

\* C5: the reply to a chunk's request with status 401 or 403, whatever its
\* body, gives exactly one onError, runs disconnect (not connected, the flush
\* timer cancelled, onDisconnect signalled now or when the context has closed)
\* and emits no entry.
C5_AuthenticationFailure ==
    [][\A i \in DOMAIN inflight : \A r \in Responses :
        (Replied(i, r) /\ inflight[i].kind = "chunk" /\ r.status \in {401, 403})
        => /\ CountOf(calls', "onError") = 1
           /\ ~isConnected'
           /\ processingInterval \notin intervals'
           /\ \/ CountOf(calls', "onDisconnect") = 1
              \/ pendingClose' = pendingClose + 1
           /\ entries' = entries
           /\ CountOf(calls', "onWarmup") = 0]_vars

\* C6: blocks are conserved in arrival order (the chunks taken so far followed
\* by the buffer are exactly the blocks that arrived); a flush takes the whole
\* buffer and leaves it empty; every request carries the chunk of the flush
\* that made it; and a block that arrives goes to the end of the current
\* buffer, whatever is in flight.
C6_EveryBlockFlushedOnce ==
    [][/\ Flatten(flushed') \o audioBuffer' = arrived'
       /\ flushed' # flushed =>
            /\ flushed' = Append(flushed, audioBuffer)
            /\ audioBuffer' = << >>
            /\ bufferLength' = 0
       /\ \A req \in Waiting(inflight') \ Waiting(inflight) :
            req.kind = "chunk" =>
                /\ req.chunk = audioBuffer
                /\ flushed' = Append(flushed, audioBuffer)
       /\ arrived' # arrived =>
            /\ audioBuffer' = Append(audioBuffer, arrived'[Len(arrived')])
            /\ arrived' = Append(arrived, arrived'[Len(arrived')])
            /\ flushed' = flushed
            /\ inflight' = inflight]_vars

\* C6 witness: while the request of an earlier flush is still waiting for its
\* reply, a later block sits in the fresh buffer of the connected service.
C6_Witness ==
    /\ isConnected
    /\ \E req \in Waiting(inflight) : req.kind = "chunk" /\ req.chunk # << >>
    /\ audioBuffer # << >>
    /\ flushed # << >>

\* The service as it is before connect(): nothing held, nothing running.
PreConnect ==
    /\ ~isConnected
    /\ processingInterval = 0
    /\ intervals = {}
    /\ inputAudioContext = "null"
    /\ mediaStream = "null"
    /\ processor = "null"
    /\ inflight = << >>

\* C10: when getUserMedia fails for the only connect() of a fresh service, the
\* error goes to onError alone and the service is as it was before connect().
C10_MicFailureLeavesPreConnect ==
    [][(MicDenied /\ apiCalls = 1 /\ pendingMic = 1)
       => /\ calls' = <<"onError">>
          /\ PreConnect']_vars

\* C11: disconnect() on a connected service cancels the flush timer, takes what
\* is buffered as a final chunk, releases processor, stream and context, and
\* only then signals onDisconnect (at once when there is no context to close,
\* otherwise when the close has resolved); a timer callback that runs once the
\* service is no longer connected starts no flush.
C11_DisconnectOrder ==
    [][/\ (DisconnectCall /\ isConnected) =>
            /\ processingInterval \notin intervals'
            /\ audioBuffer # << >> =>
                    (flushed' = Append(flushed, audioBuffer) /\ audioBuffer' = << >>)
            /\ liveProcessors' = 0
            /\ mediaStream' # "live"
            /\ processor' # "live"
            /\ inputAudioContext' # "running"
            /\ (CountOf(calls', "onDisconnect") = 1) = (inputAudioContext = "null")
       /\ CloseDone =>
            /\ calls' = <<"onDisconnect">>
            /\ processor' = "null" /\ mediaStream' = "null"
            /\ inputAudioContext' = "null"
       /\ \A id \in intervals :
            (TimerFires(id) /\ ~isConnected) =>
                (flushed' = flushed /\ inflight' = inflight)]_vars

\* The body is JSON whose error string contains "loading".
LoadingBody(body) ==
    body.kind # "garbage" /\ body.error # << >> /\ Includes(body.error[1], "loading")

\* The replies with a non-success status other than 401/403 and a loading body.
LoadingReplies ==
    {r \in Responses : /\ r.status # 0 /\ ~ResponseOk(r) /\ r.status \notin {401, 403}
                       /\ LoadingBody(r.body)}

\* Everything of the service but its queue of waiting requests and the record
\* of the last step's callbacks.
serviceState == <<isConnected, hasSuccessfullyTranscribed, audioBuffer, bufferLength,
                  processingInterval, inputAudioContext, mediaStream, processor,
                  intervals, liveProcessors, liveStreams, pendingMic, pendingClose>>

\* C12: a reply with a non-success status other than 401/403 whose JSON body
\* carries an error containing "loading" gives exactly one onWarmup and no
\* other callback, no entry, and leaves the service as it was (connected, timer
\* running); only the answered request leaves the queue.
C12_WarmupReply ==
    [][\A i \in DOMAIN inflight : \A r \in LoadingReplies :
        Replied(i, r)
        => /\ calls' = <<"onWarmup">>
           /\ entries' = entries
           /\ inflight' = Remove(inflight, i)
           /\ UNCHANGED serviceState]_vars

\* C12 witness: a connected service with its timer running has just signalled
\* warm-up for a chunk's request (the pre-roll request is still waiting).
C12_Witness ==
    /\ calls = <<"onWarmup">>
    /\ isConnected
    /\ processingInterval \in intervals
    /\ flushed # << >>
    /\ \E req \in Waiting(inflight) : req.kind = "warmup"
    /\ \A req \in Waiting(inflight) : req.kind = "warmup"
    /\ entries = << >>

\* The other backend failures: a rejected fetch, a non-success status other
\* than 401/403 without the loading marker, or a success status whose body is
\* not JSON.
OtherFailures ==
    {r \in Responses :
        \/ r.status = 0
        \/ ~ResponseOk(r) /\ r.status \notin {401, 403} /\ ~LoadingBody(r.body)
        \/ ResponseOk(r) /\ r.body.kind = "garbage"}

\* C13: when a chunk's request fails in any of these ways, onError is not
\* called, no entry is made, the service is left as it was (connected, timer
\* running), the request is dropped and not sent again, and none of its blocks
\* is in the buffer the next flush will take.
C13_OtherFailuresNonFatal ==
    [][\A i \in DOMAIN inflight : \A r \in OtherFailures :
        (Replied(i, r) /\ inflight[i].kind = "chunk")
        => /\ CountOf(calls', "onError") = 0
           /\ entries' = entries
           /\ inflight' = Remove(inflight, i)
           /\ UNCHANGED serviceState
           /\ \A k \in DOMAIN inflight[i].chunk :
                ~Includes(audioBuffer', inflight[i].chunk[k])]_vars

\* The success replies whose body parses as JSON.
SuccessReplies == {r \in Responses : ResponseOk(r) /\ r.body.kind # "garbage"}

AllSpaces(str) == \A k \in DOMAIN str : str[k] = " "

\* t is s without its leading and trailing white space.
IsTrimOf(t, s) ==
    /\ t = << >> \/ (t[1] # " " /\ t[Len(t)] # " ")
    /\ \E a \in 0..Len(s) : \E b \in a..Len(s) :
        /\ t = SubSeq(s, a + 1, b)
        /\ AllSpaces(SubSeq(s, 1, a))
        /\ AllSpaces(SubSeq(s, b + 1, Len(s)))

\* the text of a parsed body: that of {text} or of the first element of a list
TextOf(body) == IF body.text = << >> THEN << >> ELSE body.text[1]

\* C14: a success reply whose text is non-empty after trimming appends exactly
\* one entry (id the current time as a string, sender user, not partial, the
\* trimmed text), handed to onTranscription and then to onBroadcastTranscript,
\* once each; a success reply with empty trimmed text or with no text emits
\* nothing.
C14_EntryEmission ==
    [][\A i \in DOMAIN inflight : \A r \in SuccessReplies :
        Replied(i, r) =>
            IF AllSpaces(TextOf(r.body))
            THEN /\ entries' = entries
                 /\ CountOf(calls', "onTranscription") = 0
                 /\ CountOf(calls', "onBroadcastTranscript") = 0
            ELSE /\ Len(entries') = Len(entries) + 1
                 /\ SubSeq(entries', 1, Len(entries)) = entries
                 /\ LET entry == entries'[Len(entries')] IN
                        /\ entry.id = ToString(now')
                        /\ now' \in {now, now + 1}
                        /\ entry.sender = "user"
                        /\ entry.isPartial = FALSE
                        /\ IsTrimOf(entry.text, TextOf(r.body))
                 /\ CountOf(calls', "onTranscription") = 1
                 /\ CountOf(calls', "onBroadcastTranscript") = 1
                 /\ calls'[Len(calls') - 1] = "onTranscription"
                 /\ calls'[Len(calls')] = "onBroadcastTranscript"]_vars

\* C14 witness: the last step handed the entry "hi" to both callbacks while a
\* chunk had been flushed and no request is waiting any more.
C14_Witness ==
    /\ entries # << >>
    /\ entries[Len(entries)].text = <<"h", "i">>
    /\ calls = <<"onTranscription", "onBroadcastTranscript">>
    /\ flushed # << >>
    /\ inflight = << >>

\* C15: onReady is invoked in exactly the step that makes the service's first
\* entry (the first success reply with non-empty trimmed text), ahead of
\* onTranscription, and in no other step; entries are never taken back, so it
\* is invoked at most once in the life of the service.
C15_ReadyOnce ==
    [][/\ Len(entries') >= Len(entries)
       /\ hasSuccessfullyTranscribed' = (entries' # << >>)
       /\ CountOf(calls', "onReady") =
            (IF entries = << >> /\ entries' # << >> THEN 1 ELSE 0)
       /\ CountOf(calls', "onReady") = 1 =>
            calls' = <<"onReady", "onTranscription", "onBroadcastTranscript">>]_vars

\* C15 witness: a second entry has just been emitted, without onReady.
C15_Witness ==
    /\ Len(entries) = 2
    /\ hasSuccessfullyTranscribed
    /\ calls = <<"onTranscription", "onBroadcastTranscript">>

\* The success replies that carry a text which is not only white space.
EntryReplies == {r \in SuccessReplies : ~AllSpaces(TextOf(r.body))}

\* C16: a timer flush of a connected service with buffered audio takes the
\* buffer whatever requests are still waiting, so requests pile up; and the
\* entry of a reply goes to the end of the entries at the moment the reply is
\* handled, whichever waiting request it answers, while the others keep waiting.
C16_RepliesOrderEntries ==
    [][/\ \A id \in intervals :
            (TimerFires(id) /\ isConnected /\ audioBuffer # << >>) =>
                /\ flushed' = Append(flushed, audioBuffer)
                /\ \/ inflight' = inflight
                   \/ inflight' = Append(inflight, Request("chunk", audioBuffer))
       /\ \A i \in DOMAIN inflight : \A r \in EntryReplies :
            Replied(i, r) =>
                /\ Len(entries') = Len(entries) + 1
                /\ SubSeq(entries', 1, Len(entries)) = entries
                /\ Len(inflight') = Len(inflight) - 1
                /\ \A k \in 1..(i - 1) : inflight'[k] = inflight[k]
                /\ \A k \in (i + 1)..Len(inflight) : inflight'[k - 1] = inflight[k]]_vars

\* C16 witness: after a single connect() two chunks were flushed; the pre-roll
\* and the second chunk have been answered with an entry each, the second just
\* now, while the request of the first chunk is still waiting.
C16_Witness ==
    /\ apiCalls = 1
    /\ Len(flushed) = 2
    /\ inflight = <<Request("chunk", flushed[1])>>
    /\ Len(entries) = 2
    /\ calls = <<"onTranscription", "onBroadcastTranscript">>

-----------------------------------------------------------------------------
(* Relay: further properties *)

\* C17: whatever its status, a guest App that handles SESSION_ENDED is idle
\* and has an empty transcript afterwards.
C17_SessionEndedResets ==
    [][\A g \in Guests :
        GuestHandles(g, {"SESSION_ENDED"}) =>
            /\ guestConnectionStatus[g] \in Statuses
            /\ guestConnectionStatus'[g] = "idle"
            /\ transcript'[g] = << >>]_vars

\* C17 witness: a connected guest that holds transcript entries has
\* SESSION_ENDED next in its inbox, in the guest view.
C17_Witness ==
    \E g \in Guests :
        /\ NextMessageIs(g, {"SESSION_ENDED"})
        /\ view[g] = "guest"
        /\ guestConnectionStatus[g] = "connected"
        /\ transcript[g] # << >>

\* C18: the host's clear empties the host transcript and writes one
\* TRANSCRIPT_CLEAR on every open connection; a connected guest that the host
\* approved has an empty transcript once it has handled that message.
C18_ClearReachesGuests ==
    [][/\ ClearTranscript =>
            /\ hostTranscript' = << >>
            /\ \A g \in hostConnections : inbox'[g] = Append(inbox[g], TranscriptClear)
       /\ \A g \in Guests :
            (/\ Approved(g)
             /\ guestConnectionStatus[g] = "connected"
             /\ GuestHandles(g, {"TRANSCRIPT_CLEAR"}))
            => transcript'[g] = << >>]_vars

\* The messages a step added at the end of guest g's link from the host.
AddedTo(g) ==
    IF Len(inbox'[g]) > Len(inbox[g])
       /\ SubSeq(inbox'[g], 1, Len(inbox[g])) = inbox[g]
    THEN SubSeq(inbox'[g], Len(inbox[g]) + 1, Len(inbox'[g]))
    ELSE << >>

C20_RejectionIsRecoverable ==
    [][\A g \in Guests :
        /\ RequestJoin(g) =>
             guestConnectionStatus[g] = "idle" /\ guestConnectionStatus'[g] = "requesting"
        /\ (guestConnectionStatus[g] = "requesting" /\ GuestHandles(g, {"JOIN_REJECTED"}))
             => guestConnectionStatus'[g] = "rejected"
        /\ (guestConnectionStatus[g] = "rejected" /\ TryAgain(g, TRUE))
             => guestConnectionStatus'[g] = "idle"
        /\ (/\ retried[g]
            /\ guestConnectionStatus[g] = "requesting"
            /\ GuestHandles(g, {"JOIN_APPROVED"}))
             => guestConnectionStatus'[g] = "connected"]_vars

\* C20 witness: the guest was rejected, retried, and is now connected, the host
\* having approved exactly one request, which is this guest's.
C20_Witness ==
    \E g \in Guests :
        /\ retried[g]
        /\ guestConnectionStatus[g] = "connected"
        /\ guests = <<Guest(g, "connected")>>

\* The display name the host derives from a sender id of four or more
\* characters: 'Guest ' and the id's first four characters.
NameFrom(s) == <<"G", "u", "e", "s", "t", " ", s[1], s[2], s[3], s[4]>>

\* The host's callback handles the next message of its inbox, of one of the types.
HostHandles(types) == hostInbox # << >> /\ Head(hostInbox).type \in types /\ HostReceive

\* C21: with no request pending, a JOIN_REQUEST whose senderId is s fills the
\* pending slot with the guest record (id s, name 'Guest ' + first four
\* characters of s, status pending); a host message of any other type leaves
\* the pending slot, the guest list and the host transcript as they are.
C21_JoinRequestFillsPending ==
    [][/\ (/\ pendingGuest = << >>
           /\ HostHandles({"JOIN_REQUEST"})
           /\ Head(hostInbox).senderId # Undefined)
          => LET s == Head(hostInbox).senderId IN
                /\ pendingGuest' = <<[id |-> s, name |-> NameFrom(s), status |-> "pending"]>>
                /\ guests' = guests
                /\ hostTranscript' = hostTranscript
       /\ (hostInbox # << >> /\ Head(hostInbox).type # "JOIN_REQUEST" /\ HostReceive)
          => UNCHANGED <<pendingGuest, guests, hostTranscript>>]_vars

\* C21 witness: the pending slot holds the record made from a guest's request.
C21_Witness ==
    \E g \in Guests :
        pendingGuest = <<[id |-> g, name |-> NameFrom(g), status |-> "pending"]>>

\* C22: requestJoin moves the guest to requesting in the same step and sends
\* nothing yet; when its timer fires, exactly one JOIN_REQUEST carrying the
\* guest's local id is added to what the host receives.
C22_JoinRequestSent ==
    [][\A g \in Guests :
        /\ RequestJoin(g) =>
             /\ guestConnectionStatus'[g] = "requesting"
             /\ hostInbox' = hostInbox
        /\ JoinTimerFires(g) => hostInbox' = Append(hostInbox, JoinRequest(g))]_vars

-----------------------------------------------------------------------------
(* SignalingService: properties *)

\* C23: close() leaves no timer scheduled, an empty connection list and no
\* peer; and once close() has been called no step starts a dial, whichever
\* peer, timer or connection event arrives.
C23_CloseStopsDialling ==
    [][/\ SignalingClose =>
            /\ peerjs'.timeouts = {}
            /\ service'.connections = << >>
            /\ service'.peer = "null"
       /\ peerjs.closeCalled =>
            \A c \in ConnIds : peerjs'.conn[c] = "pending" => peerjs.conn[c] = "pending"]_vars

\* C23 witness: after close(), an event that leads to connectToHost has
\* arrived and the call has returned without dialling.
C23_Witness ==
    /\ peerjs.closeCalled
    /\ peerjs.refused
    /\ \A c \in ConnIds : peerjs.conn[c] # "pending"

\* The service holds an open connection.
HoldsOpenConnection ==
    \E c \in ConnIds : InList(service.connections, c) /\ peerjs.conn[c] = "open"

\* C24: at most one retry timer is scheduled at any time; the handler of a
\* failed dial leaves exactly one timer scheduled, of 2000 ms; the timer's
\* callback dials again unless close() was called; and a guest whose host is
\* reachable from some moment on, and which is not closed, eventually holds an
\* open connection.
C24_GuestRedialsUntilOpen ==
    /\ [](Cardinality(peerjs.timeouts) <= 1)
    /\ [][/\ (\E c \in ConnIds : PeerErrorEvent(c)) =>
                \E t \in peerjs'.timeouts :
                    /\ peerjs'.timeouts = {t}
                    /\ t.ms = 2000
                    /\ service'.retryTimer = t.id
          /\ (~peerjs.closeCalled /\ \E id \in TimerIds : RetryTimerFires(id)) =>
                \E c \in ConnIds : peerjs.conn[c] # "pending" /\ peerjs'.conn[c] = "pending"
         ]_vars
    /\ (<>[](/\ service.role = "guest"
             /\ peerjs.hostReachable
             /\ ~peerjs.closeCalled))
          => <>HoldsOpenConnection

\* C24 witness: the guest's retry timer has dialled the host again after a
\* failed dial, and the guest now holds an open connection.
C24_Witness ==
    /\ service.role = "guest"
    /\ peerjs.redialed
    /\ HoldsOpenConnection

\* C25: send() calls conn.send exactly once on every connection that is in the
\* list and open, on no other, and leaves the list as it is; a connection
\* enters the list only in the step in which it opens, and leaves it only
\* when it is closed.
C25_SendReachesOpenConnections ==
    [][/\ SignalingSend =>
            /\ \A c \in ConnIds :
                 peerjs'.wire[c] =
                    IF InList(service.connections, c) /\ peerjs.conn[c] = "open"
                    THEN peerjs.wire[c] + 1
                    ELSE peerjs.wire[c]
            /\ service'.connections = service.connections
       /\ \A c \in ConnIds :
            /\ (~InList(service.connections, c) /\ InList(service'.connections, c))
                 => peerjs.conn[c] = "pending" /\ peerjs'.conn[c] = "open"
            /\ (InList(service.connections, c) /\ ~InList(service'.connections, c))
                 => peerjs.conn[c] \in {"open", "dropped"} /\ peerjs'.conn[c] # "open"
      ]_vars

\* C25 witness: after one send(), the list holds a connection the message was
\* written on and a connection, no longer open, it was not written on.
C25_Witness ==
    /\ peerjs.sends = 1
    /\ \E c, d \in ConnIds :
         /\ InList(service.connections, c) /\ peerjs.wire[c] = 1
         /\ InList(service.connections, d) /\ peerjs.wire[d] = 0
         /\ peerjs.conn[d] = "dropped"

-----------------------------------------------------------------------------
(* Relay: properties of the message handlers *)

\* C26: a JOIN_REQUEST that carries no senderId is dropped by the host: the
\* pending slot, the guest list and the host transcript stay as they are.
C26_MalformedRequestDropped ==
    [][(/\ HostHandles({"JOIN_REQUEST"})
        /\ Head(hostInbox).senderId = Undefined)
       => UNCHANGED <<pendingGuest, guests, hostTranscript>>]_vars

-----------------------------------------------------------------------------
(* WhisperService: further properties *)

\* C27: the entries handed to onTranscription have pairwise distinct ids.
C27_EntryIdsUnique ==
    \A i, j \in DOMAIN entries : i # j => entries[i].id # entries[j].id

-----------------------------------------------------------------------------
(* Peer id: properties *)

IsUpper(ch) == \E i \in DOMAIN UpperCase : UpperCase[i] = ch
IsLowerOrDigit(ch) == ch \in Digits \/ \E i \in DOMAIN LowerCase : LowerCase[i] = ch
Lowered(ch) == LowerCase[CHOOSE i \in DOMAIN UpperCase : UpperCase[i] = ch]

\* The session id read character by character: a letter in lower case, a
\* digit as it is, anything else left out.
RECURSIVE Normal(_)
Normal(s) ==
    IF s = << >> THEN << >>
    ELSE LET h == Head(s) IN
         (IF IsUpper(h) THEN <<Lowered(h)>>
          ELSE IF IsLowerOrDigit(h) THEN <<h>>
          ELSE << >>) \o Normal(Tail(s))

\* Two session ids differ at most in letter case and in characters that are
\* neither letters nor digits.
RECURSIVE Alike(_, _)
Alike(a, b) ==
    IF a # << >> /\ ~IsUpper(Head(a)) /\ ~IsLowerOrDigit(Head(a)) THEN Alike(Tail(a), b)
    ELSE IF b # << >> /\ ~IsUpper(Head(b)) /\ ~IsLowerOrDigit(Head(b)) THEN Alike(a, Tail(b))
    ELSE IF a = << >> \/ b = << >> THEN a = b
    ELSE /\ \/ Head(a) = Head(b)
            \/ IsUpper(Head(a)) /\ Lowered(Head(a)) = Head(b)
            \/ IsUpper(Head(b)) /\ Lowered(Head(b)) = Head(a)
         /\ Alike(Tail(a), Tail(b))

\* C28: the peer id a service derives is 'dysarthria-' followed by the session
\* id in lower case without the characters outside a-z and 0-9; a host and a
\* guest whose session ids differ only in case or in such characters derive
\* the same peer id.
C28_ChannelIdNormalised ==
    LET dysarthria == <<"d", "y", "s", "a", "r", "t", "h", "r", "i", "a", "-">> IN
    /\ channel.hostPeerId # << >> =>
          channel.hostPeerId = dysarthria \o Normal(channel.hostSession)
    /\ channel.guestDials # << >> =>
          channel.guestDials = dysarthria \o Normal(channel.guestSession)
    /\ (/\ channel.hostPeerId # << >>
        /\ channel.guestDials # << >>
        /\ Alike(channel.hostSession, channel.guestSession))
          => channel.guestDials = channel.hostPeerId

\* C28 witness: a host and a guest were given session ids that differ in
\* letter case, and the guest dials the peer id the host registered.
C28_Witness ==
    /\ channel.hostSession # channel.guestSession
    /\ \E k \in DOMAIN channel.hostSession : IsUpper(channel.hostSession[k])
    /\ Alike(channel.hostSession, channel.guestSession)
    /\ channel.hostPeerId # << >>
    /\ channel.guestDials = channel.hostPeerId

\* The replies with which a request fails: a rejected fetch, a non-success
\* status (401, 403 and 407 among them), or a success status whose body is not
\* JSON.
FailedReplies ==
    {r \in Responses : r.status = 0 \/ ~ResponseOk(r) \/ r.body.kind = "garbage"}

\* C29: when the silent pre-roll request (the one that carries no captured
\* block) fails in any way, the only callback is one onWarmup: no onError, no
\* entry, and the service is left as it was (connected, timer running).  Said
\* of a step that answers the pre-roll: it has that effect, or the reply it
\* handles is none of the failed replies.
C29_PreRollFailureIsWarmup ==
    [][\A i \in DOMAIN inflight :
        (inflight[i].chunk = << >> /\ inflight' = Remove(inflight, i))
        => \/ /\ calls' = <<"onWarmup">>
              /\ entries' = entries
              /\ disconnected' = disconnected
              /\ UNCHANGED serviceState
           \/ \A r \in FailedReplies : ~Replied(i, r)]_vars

\* C29 witness: a connected service that has flushed nothing yet has just
\* signalled warm-up, its pre-roll request answered, its timer still running.
C29_Witness ==
    /\ calls = <<"onWarmup">>
    /\ flushed = << >>
    /\ inflight = << >>
    /\ isConnected
    /\ processingInterval \in intervals
    /\ ~disconnected

-----------------------------------------------------------------------------
(* Silence gate: properties *)

RECURSIVE Total(_)
Total(samples) ==
    IF samples = << >> THEN 0
    ELSE (IF Head(samples) >= 0 THEN Head(samples) ELSE 0 - Head(samples))
         + Total(Tail(samples))

\* The mean absolute amplitude of the samples is below 0.008 (8 thousandths).
MeanBelowThreshold(samples) == Total(samples) < 8 * Len(samples)

\* C30: a flush of a connected service with a non-empty buffer empties the
\* buffer; it adds no request and no entry when the mean absolute amplitude of
\* the chunk is below 0.008, as for a chunk of zeros, and it adds one request
\* otherwise, as for a chunk of full-scale samples.
C30_SilentChunkDropped ==
    [][(GateProcessAudioChunk /\ gate.isConnected /\ gate.audioBuffer # << >>)
       => LET chunk == Flatten(gate.audioBuffer) IN
          /\ gate'.audioBuffer = << >>
          /\ gate'.bufferLength = 0
          /\ gate'.entries = gate.entries
          /\ MeanBelowThreshold(chunk) => gate'.waiting = gate.waiting
          /\ ~MeanBelowThreshold(chunk) => gate'.waiting = gate.waiting + 1
          /\ (\A k \in DOMAIN chunk : chunk[k] = 0) => gate'.waiting = gate.waiting
          /\ (\A k \in DOMAIN chunk : chunk[k] \in {1000, -1000})
                => gate'.waiting = gate.waiting + 1]_vars

\* C30 witness: a chunk was dropped at the gate; the buffer is empty, no
\* request was ever sent and no entry made.
C30_Witness ==
    /\ gate.skipped
    /\ gate.audioBuffer = << >>
    /\ gate.bufferLength = 0
    /\ gate.waiting = 0
    /\ gate.entries = 0

-----------------------------------------------------------------------------
(* encodeToWAV: properties *)

\* The unsigned little-endian number in the bytes at offset .. offset + width - 1.
UnsignedAt(bytes, offset, width) ==
    IF width = 2
    THEN bytes[offset + 1] + 256 * bytes[offset + 2]
    ELSE bytes[offset + 1] + 256 * bytes[offset + 2] + 65536 * bytes[offset + 3]
         + 16777216 * bytes[offset + 4]

\* The signed 16-bit little-endian number at the offset.
Int16At(bytes, offset) ==
    LET u == UnsignedAt(bytes, offset, 2) IN IF u >= 32768 THEN u - 65536 ELSE u

\* A 16-bit value v is the sample x (in thousandths) brought into [-1, 1] and
\* scaled by 32768 if negative and 32767 otherwise, to the precision of an integer.
ClampedAndScaled(v, x) ==
    LET c == IF x < -1000 THEN -1000 ELSE IF x > 1000 THEN 1000 ELSE x
        k == IF c < 0 THEN 32768 ELSE 32767
    IN  /\ v * 1000 > c * k - 1000
        /\ v * 1000 < c * k + 1000

\* C31: encodeToWAV on N samples returns 44 + 2N bytes; the RIFF size field is
\* 36 + 2N and the data size field 2N; the header says PCM, mono, 16 bits, the
\* given sample rate, byte rate twice the rate and block align 2; every sample
\* is clamped to [-1, 1] and scaled by 32768 if negative, 32767 otherwise; and
\* every call on the same input returns the same bytes.
C31_WavLayout ==
    \A call \in DOMAIN wav.blobs :
        LET bytes == wav.blobs[call]
            N     == Len(wav.samples)
        IN  /\ Len(bytes) = 44 + 2 * N
            /\ \A b \in DOMAIN bytes : bytes[b] \in 0..255
            /\ UnsignedAt(bytes, 4, 4) = 36 + 2 * N
            /\ UnsignedAt(bytes, 40, 4) = 2 * N
            /\ UnsignedAt(bytes, 20, 2) = 1
            /\ UnsignedAt(bytes, 22, 2) = 1
            /\ UnsignedAt(bytes, 24, 4) = wav.sampleRate
            /\ UnsignedAt(bytes, 28, 4) = wav.sampleRate * 2
            /\ UnsignedAt(bytes, 32, 2) = 2
            /\ UnsignedAt(bytes, 34, 2) = 16
            /\ \A i \in 1..N :
                 ClampedAndScaled(Int16At(bytes, 44 + 2 * (i - 1)), wav.samples[i])
            /\ bytes = wav.blobs[1]

\* C31 witness: the same samples, one above full scale and one negative among
\* them, have been encoded twice.
C31_Witness ==
    /\ Len(wav.blobs) = 2
    /\ \E i \in DOMAIN wav.samples : wav.samples[i] > 1000
    /\ \E i \in DOMAIN wav.samples : wav.samples[i] < 0

-----------------------------------------------------------------------------
(* resampleToTarget: properties *)

\* L is the least whole number that is at least N * TARGET_SAMPLE_RATE / rate.
IsCeiling(L, N, rate) ==
    /\ L * rate >= N * TARGET_SAMPLE_RATE
    /\ L = 0 \/ (L - 1) * rate < N * TARGET_SAMPLE_RATE

\* x lies between a and b, in whichever order they come.
Between(x, a, b) == (a <= x /\ x <= b) \/ (b <= x /\ x <= a)

\* C32: resampleToTarget on N samples at rate r_in returns ceil(N * 16000 / r_in)
\* samples; at r_in = 16000 the output is the input; at r_in = 32000 the output
\* has ceil(N / 2) samples, the i-th lying between the input samples 2i and
\* 2i + 1 (counted from 0), the last input sample standing for a missing
\* 2i + 1; and every call on the same input returns the same output.
C32_ResampleContract ==
    \A call \in DOMAIN resampler.outputs :
        LET input  == resampler.input
            rate   == resampler.inputSampleRate
            output == resampler.outputs[call]
            N      == Len(input)
        IN  /\ IsCeiling(Len(output), N, rate)
            /\ rate = TARGET_SAMPLE_RATE => output = input
            /\ rate = 2 * TARGET_SAMPLE_RATE =>
                 /\ 2 * Len(output) \in {N, N + 1}
                 /\ \A i \in 0..(Len(output) - 1) :
                      Between(output[i + 1], input[2 * i + 1],
                              IF 2 * i + 1 < N THEN input[2 * i + 2] ELSE input[N])
            /\ output = resampler.outputs[1]

\* C32 witness: a block of odd length at twice the target rate has been
\* resampled twice, and its last output sample is the last input sample.
C32_Witness ==
    /\ Len(resampler.outputs) = 2
    /\ resampler.inputSampleRate = 2 * TARGET_SAMPLE_RATE
    /\ Len(resampler.input) = 3
    /\ resampler.input[2] # resampler.input[3]
    /\ resampler.outputs[2][2] = resampler.input[3]

-----------------------------------------------------------------------------
(* Relay: several guests on one session *)

\* C33: a guest's status becomes connected only when it handles a JOIN_APPROVED
\* that the host issued for its own id, the host having approved a request
\* whose senderId is that id; a JOIN_APPROVED issued for another guest does
\* not move it to connected.
C33_ApprovalIsPerGuest ==
    [][\A g \in Guests :
        (guestConnectionStatus[g] # "connected" /\ guestConnectionStatus'[g] = "connected")
        => /\ GuestHandles(g, {"JOIN_APPROVED"})
           /\ Head(inbox[g]).guestId = g
           /\ Approved(g)]_vars

\* C34: a guest the host approved and that is connected stays connected, and
\* keeps its transcript, when it receives the JOIN_REJECTED the host issued for
\* a different guest's request.
C34_RejectionIsPerGuest ==
    [][\A g \in Guests :
        (/\ Approved(g)
         /\ guestConnectionStatus[g] = "connected"
         /\ GuestHandles(g, {"JOIN_REJECTED"})
         /\ Head(inbox[g]).guestId # g)
        => /\ guestConnectionStatus'[g] = "connected"
           /\ transcript'[g] = transcript[g]]_vars

\* C35: the host writes no TRANSCRIPT_UPDATE on the connection of a guest that
\* is not in its guest list (one that has not requested, is pending, or was
\* rejected).
C35_TranscriptToApprovedOnly ==
    [][\A g \in Guests :
        Approved(g) \/ \A k \in DOMAIN AddedTo(g) : AddedTo(g)[k].type # "TRANSCRIPT_UPDATE"]_vars

\* C36: a step in which the transcription client produces an entry writes the
\* TRANSCRIPT_UPDATE of that entry exactly once on every open connection, so no
\* link from the host carries the same entry twice.
C36_EntrySentOnce ==
    [][(\E text \in Texts : HostTranscription(text)) =>
            \A g \in hostConnections :
                AddedTo(g) = <<TranscriptUpdate(hostTranscript'[Len(hostTranscript')])>>]_vars

-----------------------------------------------------------------------------
(* WhisperService: overlapping calls and late replies *)

\* C37: at no time does the service have more than one flush timer scheduled
\* or more than one capture stream live, connect() calls that overlap
\* included; and after disconnect() none of the timers it started is scheduled.
C37_OneTimerOneStream ==
    [][/\ Cardinality(intervals') <= 1
       /\ liveStreams' <= 1
       /\ DisconnectCall => intervals' = {}]_vars

\* C38: once the service has signalled onDisconnect, and as long as no new
\* connect() has been called on it, no step hands an entry to its caller or
\* signals ready or warm-up: the reply to a request that was in flight when
\* capture stopped is dropped.
C38_SilentAfterDisconnect ==
    [][(disconnected /\ ~isConnected /\ pendingMic = 0)
       => /\ entries' = entries
          /\ \A k \in DOMAIN calls' :
                calls'[k] \notin {"onTranscription", "onBroadcastTranscript",
                                  "onReady", "onWarmup"}]_vars

\* C40: the reply to the silent pre-roll request of connect(), whatever it is,
\* adds no entry to what the caller has been handed and signals no ready; only
\* the reply to a chunk flushed from captured audio does.
C40_PreRollMakesNoEntry ==
    [][\A i \in DOMAIN inflight :
        (inflight[i].kind = "warmup" /\ inflight' = Remove(inflight, i))
        => /\ entries' = entries
           /\ \A k \in DOMAIN calls' : calls'[k] \notin {"onReady", "onTranscription"}]_vars

-----------------------------------------------------------------------------
(* Relay: the end of a session *)

\* C39: once the host has left the host view, closing the session channel,
\* every guest that is connected eventually returns to idle.
C39_GuestsReturnToIdle ==
    \A g \in Guests :
        (hostView = "landing" /\ guestConnectionStatus[g] = "connected")
            ~> guestConnectionStatus[g] = "idle"

====
